---- MODULE Spec2Model ----
(***************************************************************************)
(* Model of the mariner workflow engine: the concurrent scheduler of       *)
(* src/mariner/jobs.go (RunWorkflow, resolveGraph, GoRun, runStep,         *)
(* RunSteps, mergeChildOutputs) and the job handling of                    *)
(* src/mariner/server.go (cancel handler, job reaper).                     *)
(***************************************************************************)
EXTENDS Integers, Sequences, FiniteSets, TLC

(***************************************************************************)
(* Bounds of the model.                                                    *)
(***************************************************************************)
\* the workflow input "x" ranges over 1..MaxInput
MaxInput == 2
\* the array given to a scattered step has MaxScatter elements
MaxScatter == 2

(***************************************************************************)
(* Go helpers.                                                             *)
(***************************************************************************)
\* parameter values (interface{}): nil, a number, or an array of values;
\* Nil is the zero value a Go map lookup yields for an absent key
Nil == [k |-> "nil"]
Val(n) == [k |-> "int", v |-> n]
Arr(seq) == [k |-> "array", v |-> seq]
isArr(x) == x.k = "array"

\* m[k] on a Go map: the zero value when k is absent
Get(m, k) == IF k \in DOMAIN m THEN m[k] ELSE Nil

\* m[k] = v on a Go map
Put(m, k, v) == [x \in DOMAIN m \cup {k} |-> IF x = k THEN v ELSE m[x]]

\* make(map)
EmptyMap == [x \in {} |-> Nil]

\* strings.HasPrefix
HasPrefix(s, prefix) == Len(s) >= Len(prefix) /\ SubSeq(s, 1, Len(prefix)) = prefix

\* strings.TrimPrefix
TrimPrefix(s, prefix) ==
    IF HasPrefix(s, prefix) THEN SubSeq(s, Len(prefix) + 1, Len(s)) ELSE s

Range(f) == {f[x] : x \in DOMAIN f}

(***************************************************************************)
(* Packed workflow documents (cwl.Root, cwl.Step): the inputs of the       *)
(* engine.  Identifiers are the fully qualified strings of a packed        *)
(* document.                                                               *)
(***************************************************************************)
In(id, source) == [ID |-> id, Source |-> source]
Out(id, source) == [ID |-> id, Source |-> source]
Step(id, run, in, out, scatter) ==
    [ID |-> id, Run |-> run, In |-> in, Out |-> out, Scatter |-> scatter]
Tool(id, inputs, outputs) ==
    [ID |-> id, Class |-> "CommandLineTool", Inputs |-> inputs,
     Outputs |-> [i \in DOMAIN outputs |-> Out(outputs[i], <<>>)], Steps |-> <<>>]
Workflow(id, inputs, outputs, steps) ==
    [ID |-> id, Class |-> "Workflow", Inputs |-> inputs, Outputs |-> outputs,
     Steps |-> steps]

IncTool == Tool("#inc.cwl", <<"#inc.cwl/v">>, <<"#inc.cwl/a">>)
SqTool == Tool("#sq.cwl", <<"#sq.cwl/n">>, <<"#sq.cwl/r">>)
EchoTool == Tool("#echo.cwl", <<"#echo.cwl/m">>, <<"#echo.cwl/e", "#echo.cwl/f">>)

\* a sub-workflow with two outputs, produced by two different steps
SubWorkflow ==
    Workflow("#sub.cwl", <<"#sub.cwl/p">>,
        <<Out("#sub.cwl/o1", <<"#sub.cwl/S/a">>), Out("#sub.cwl/o2", <<"#sub.cwl/T/a">>)>>,
        <<Step("#sub.cwl/S", "#inc.cwl", <<In("#sub.cwl/S/v", <<"#sub.cwl/p">>)>>,
               <<"#sub.cwl/S/a">>, <<>>),
          Step("#sub.cwl/T", "#inc.cwl", <<In("#sub.cwl/T/v", <<"#sub.cwl/S/a">>)>>,
               <<"#sub.cwl/T/a">>, <<>>)>>)

\* "sub": step A is a sub-workflow, step B consumes A's second output, step C
\* feeds no declared workflow output
DocSub ==
    <<Workflow("#main", <<"#main/x">>,
        <<Out("#main/result", <<"#main/B/r">>)>>,
        <<Step("#main/A", "#sub.cwl", <<In("#main/A/p", <<"#main/x">>)>>,
               <<"#main/A/o1", "#main/A/o2">>, <<>>),
          Step("#main/B", "#sq.cwl", <<In("#main/B/n", <<"#main/A/o2">>)>>,
               <<"#main/B/r">>, <<>>),
          Step("#main/C", "#echo.cwl", <<In("#main/C/m", <<"#main/x">>)>>,
               <<"#main/C/e", "#main/C/f">>, <<>>)>>),
      SubWorkflow, IncTool, SqTool, EchoTool>>

\* "linear": two leaf steps A -> B
DocLinear ==
    <<Workflow("#main", <<"#main/x">>,
        <<Out("#main/result", <<"#main/B/r">>), Out("#main/first", <<"#main/A/a">>)>>,
        <<Step("#main/A", "#inc.cwl", <<In("#main/A/v", <<"#main/x">>)>>,
               <<"#main/A/a">>, <<>>),
          Step("#main/B", "#sq.cwl", <<In("#main/B/n", <<"#main/A/a">>)>>,
               <<"#main/B/r">>, <<>>)>>),
      IncTool, SqTool>>

\* "unknown": an `in` entry whose source is neither a sibling output nor
\* an input of the enclosing workflow
DocUnknown ==
    <<Workflow("#main", <<"#main/x">>,
        <<Out("#main/result", <<"#main/A/a">>)>>,
        <<Step("#main/A", "#inc.cwl", <<In("#main/A/v", <<"#other/x">>)>>,
               <<"#main/A/a">>, <<>>)>>),
      IncTool>>

\* "scatter": step A is scattered over the array xs, step B consumes the
\* gathered array
DocScatter ==
    <<Workflow("#main", <<"#main/xs">>,
        <<Out("#main/all", <<"#main/A/a">>), Out("#main/total", <<"#main/B/r">>)>>,
        <<Step("#main/A", "#inc.cwl", <<In("#main/A/v", <<"#main/xs">>)>>,
               <<"#main/A/a">>, <<"#main/A/v">>),
          Step("#main/B", "#sq.cwl", <<In("#main/B/n", <<"#main/A/a">>)>>,
               <<"#main/B/r">>, <<>>)>>),
      IncTool, SqTool>>

\* "nomain": no process of the document has the id #main
DocNoMain ==
    <<Workflow("#wf", <<"#wf/x">>,
        <<Out("#wf/result", <<"#wf/A/a">>)>>,
        <<Step("#wf/A", "#inc.cwl", <<In("#wf/A/v", <<"#wf/x">>)>>,
               <<"#wf/A/a">>, <<>>)>>),
      IncTool>>

\* "norun": step B runs a process that is not in $graph
DocNoRun ==
    <<Workflow("#main", <<"#main/x">>,
        <<Out("#main/result", <<"#main/A/a">>)>>,
        <<Step("#main/A", "#inc.cwl", <<In("#main/A/v", <<"#main/x">>)>>,
               <<"#main/A/a">>, <<>>),
          Step("#main/B", "#missing.cwl", <<In("#main/B/n", <<"#main/A/a">>)>>,
               <<"#main/B/r">>, <<>>)>>),
      IncTool>>

\* "multiout": a workflow output with two outputSource entries, and one
\* with none, after an output with one
DocMultiOut ==
    <<Workflow("#main", <<"#main/x">>,
        <<Out("#main/first", <<"#main/A/a">>),
          Out("#main/both", <<"#main/A/a", "#main/B/r">>),
          Out("#main/none", <<>>)>>,
        <<Step("#main/A", "#inc.cwl", <<In("#main/A/v", <<"#main/x">>)>>,
               <<"#main/A/a">>, <<>>),
          Step("#main/B", "#sq.cwl", <<In("#main/B/n", <<"#main/A/a">>)>>,
               <<"#main/B/r">>, <<>>)>>),
      IncTool, SqTool>>

\* "multiin": an `in` entry of step B with two sources
DocMultiIn ==
    <<Workflow("#main", <<"#main/x">>,
        <<Out("#main/result", <<"#main/B/r">>)>>,
        <<Step("#main/A", "#inc.cwl", <<In("#main/A/v", <<"#main/x">>)>>,
               <<"#main/A/a">>, <<>>),
          Step("#main/B", "#sq.cwl", <<In("#main/B/n", <<"#main/x", "#main/A/a">>)>>,
               <<"#main/B/r">>, <<>>)>>),
      IncTool, SqTool>>

\* "subunknown": the `in` entry of a sub-workflow step has a source that is
\* neither a sibling output nor an input of the enclosing workflow
DocSubUnknown ==
    <<Workflow("#main", <<"#main/x">>,
        <<Out("#main/result", <<"#main/A/o1">>)>>,
        <<Step("#main/A", "#sub.cwl", <<In("#main/A/p", <<"#other/x">>)>>,
               <<"#main/A/o1", "#main/A/o2">>, <<>>)>>),
      SubWorkflow, IncTool>>

DocIds == {"sub", "linear", "unknown", "scatter", "nomain", "norun", "multiout",
           "multiin", "subunknown"}

Graphs(d) ==
    CASE d = "sub" -> DocSub
      [] d = "linear" -> DocLinear
      [] d = "unknown" -> DocUnknown
      [] d = "scatter" -> DocScatter
      [] d = "nomain" -> DocNoMain
      [] d = "norun" -> DocNoRun
      [] d = "multiout" -> DocMultiOut
      [] d = "multiin" -> DocMultiIn
      [] d = "subunknown" -> DocSubUnknown

(***************************************************************************)
(* State.                                                                  *)
(***************************************************************************)
VARIABLES
    engine,       \* position of RunWorkflow: "start", "running", "finished", "panicked"
    docId,        \* the packed workflow this run was given
    input,        \* the value given for the workflow input "x"
    tasks,        \* the task tree: path of step ids |-> [Root, originalStep, ScatterIndex]
    Parameters,   \* Task.Parameters, per task
    Outputs,      \* Task.Outputs, per task
    Scatter,      \* Task.Scatter, per task
    outputIDMap,  \* Task.outputIDMap, per task
    pc,           \* position of the activity that drives each task
    idx,          \* loop index of that activity (over `in` entries or outputs)
    job,          \* the orchestrator job of each leaf task
    jobs,         \* the orchestrator's jobs, as the server sees them
    reaper,       \* position of deleteCompletedJobs: [pc, list, i, err]
    cancelled,    \* the runs for which a cancel request has been handled
    response,     \* the last response of the server, with the request it answers
    Done,         \* *tool.Task.Done of the leaf task the sampler watches
    Series,       \* tool.Task.Log.Stats.ResourceUsage.Series of that task
    sampler,      \* the metrics sampler of that task:
                  \* [path, pc, period, pods, metrics, stats]
    packing,      \* position of the packer: "idle", "packing", "done"
    packStack,    \* the PackCWLFile calls in progress: [path, next, run]
    Graph,        \* the $graph the packer has built: [id, run] per process
    cwd,          \* the working directory of the packer process
    calls,        \* the concurrent packCWLFile calls:
                  \* [pc, path, prevPath, absPath, err]
    tool,         \* the Tool of each run's task, as dispatchTaskJob leaves it
    sequential,   \* the sequential scheduler:
                  \* [mode, unFinishedSteps, curStepID, ran, concurrent]
    validator,    \* the validator:
                  \* [pc, Workflow, stack, Main, ByProcess, valid]
    conv          \* a conversion by the packer:
                  \* [pc, key, id, order, i, out, again]

schedVars == <<engine, docId, input, tasks, Parameters, Outputs, Scatter,
               outputIDMap, pc, idx, job>>

serverVars == <<jobs, reaper, cancelled, response>>

samplerVars == <<Done, Series, sampler>>

\* what the scheduler's steps, and the server's, leave alone
packVars == <<packing, packStack, Graph, cwd, calls>>

besideScheduler ==
    <<serverVars, samplerVars, packVars, conv,
      tool, sequential, validator>>
besideServer ==
    <<schedVars, samplerVars, packVars, conv,
      tool, sequential, validator>>
besideSampler ==
    <<schedVars, serverVars, packVars, conv,
      tool, sequential, validator>>
besidePacker ==
    <<schedVars, serverVars, samplerVars, conv,
      tool, sequential, validator>>
besideConversion ==
    <<schedVars, serverVars, samplerVars, packVars,
      tool, sequential, validator>>
besideTool ==
    <<schedVars, serverVars, samplerVars, packVars,
      conv, sequential, validator>>

vars == <<engine, docId, input, tasks, Parameters, Outputs, Scatter,
          outputIDMap, pc, idx, job, jobs, reaper, cancelled, response,
          Done, Series, sampler, packing, packStack, Graph, cwd, calls, conv,
          tool, sequential, validator>>

(***************************************************************************)
(* The task tree.                                                          *)
(***************************************************************************)
\* the root task has no originating step
NoStep == Step("", "", <<>>, <<>>, <<>>)

mainPath == <<>>

\* rootMap[step.Run.Value] found nothing
NoRoot == ""

\* RunWorkflow: flatRoots[workflow.ID] = workflow, the last process wins
flatRoots(graph) ==
    [id \in {graph[i].ID : i \in DOMAIN graph} |->
        graph[CHOOSE i \in DOMAIN graph :
                 /\ graph[i].ID = id
                 /\ \A j \in DOMAIN graph : graph[j].ID = id => j <= i]]

\* a new task that already holds an entry for the first `in` entry of its step
newTaskBound(path, subworkflow, step) ==
    [path |-> path, Root |-> subworkflow, originalStep |-> step, ScatterIndex |-> 0,
     Parameters |-> IF step.In = <<>> THEN EmptyMap
                    ELSE Put(EmptyMap, step.In[1].ID, Nil)]

\* resolveGraph: newTask := &Task{Root: subworkflow, Parameters:
\* make(cwl.Parameters), originalStep: step}
newTask(path, subworkflow, step) ==
    [path |-> path, Root |-> subworkflow, originalStep |-> step, ScatterIndex |-> 0,
     Parameters |-> EmptyMap]

\* a resolver that stops at the steps of the root workflow
resolveGraphFlat(rootMap, path, rootID) ==
    {newTask(Append(path, rootMap[rootID].Steps[i].ID),
             IF rootMap[rootID].Steps[i].Run \in DOMAIN rootMap
             THEN rootMap[rootID].Steps[i].Run ELSE NoRoot,
             rootMap[rootID].Steps[i])
        : i \in DOMAIN rootMap[rootID].Steps}

\* resolveGraph: one child task per step of a Workflow, keyed by the step id;
\* a step whose `run` is not in rootMap makes resolveGraph panic (Root = NoRoot)
RECURSIVE resolveGraph(_, _, _)
resolveGraph(rootMap, path, rootID) ==
    IF rootMap[rootID].Class = "Workflow"
    THEN UNION {
            LET step == rootMap[rootID].Steps[i]
                child == Append(path, step.ID)
            IN  IF step.Run \in DOMAIN rootMap
                THEN {newTask(child, step.Run, step)}
                        \cup resolveGraph(rootMap, child, step.Run)
                ELSE {newTask(child, NoRoot, step)}
            : i \in DOMAIN rootMap[rootID].Steps}
    ELSE {}

Root(t) == flatRoots(Graphs(docId))[tasks[t].Root]
isWorkflow(t) == Root(t).Class = "Workflow"
parentOf(t) == SubSeq(t, 1, Len(t) - 1)
\* task.Children[stepID]
Child(t, stepID) == Append(t, stepID)
Children(t) ==
    {c \in DOMAIN tasks :
        Len(c) = Len(t) + 1 /\ parentOf(c) = t /\ tasks[c].ScatterIndex = 0}
\* task.ScatterTasks[i]
ScatterTask(t, i) == Append(t, "scatter" \o ToString(i))
ScatterTasks(t) ==
    {c \in DOMAIN tasks :
        Len(c) = Len(t) + 1 /\ parentOf(c) = t /\ tasks[c].ScatterIndex > 0}

\* step2taskID: step.Run.Value + strings.TrimPrefix(stepVarID, step.ID)
step2taskID(step, stepVarID) == step.Run \o TrimPrefix(stepVarID, step.ID)

\* setupOutputMap: outputIDMap[output.ID] = step.ID for every `out` of every step
setupOutputMap(root) ==
    LET outs == UNION {{root.Steps[i].Out[j] : j \in DOMAIN root.Steps[i].Out}
                          : i \in DOMAIN root.Steps}
    IN  [o \in outs |->
            root.Steps[CHOOSE i \in DOMAIN root.Steps :
                          /\ o \in Range(root.Steps[i].Out)
                          /\ \A k \in DOMAIN root.Steps :
                                o \in Range(root.Steps[k].Out) => k <= i].ID]

(***************************************************************************)
(* Leaf processes: what a tool computes is a deterministic function of its *)
(* bound inputs.                                                           *)
(***************************************************************************)
RECURSIVE SumValue(_)
\* a number is itself, an array the sum of its elements, nil stays nil
SumValue(x) ==
    IF x.k = "int" THEN x
    ELSE IF x.k = "array"
    THEN IF x.v = <<>> THEN Val(0)
         ELSE LET h == SumValue(Head(x.v))
                  r == SumValue(Arr(Tail(x.v)))
              IN  IF h = Nil \/ r = Nil THEN Nil ELSE Val(h.v + r.v)
    ELSE Nil

RECURSIVE SumInputs(_, _, _)
SumInputs(inputs, params, i) ==
    IF i > Len(inputs) THEN Val(0)
    ELSE LET x == SumValue(Get(params, inputs[i]))
             rest == SumInputs(inputs, params, i + 1)
         IN  IF x = Nil \/ rest = Nil THEN Nil ELSE Val(x.v + rest.v)

\* the value of the k-th declared output of a tool run on params
ToolOutput(root, params, k) ==
    LET sum == SumInputs(root.Inputs, params, 1)
    IN  IF sum = Nil THEN Nil ELSE Val(sum.v + k)

\* the inputs given with the workflow: a number x and an array xs
originalParams(in) ==
    [id \in {"x", "xs"} |->
        IF id = "x" THEN Val(in)
        ELSE Arr([i \in 1..MaxScatter |-> Val(in + i - 1)])]

(***************************************************************************)
(* Init: the engine was given a packed workflow and its inputs.            *)
(***************************************************************************)
\* the orchestrator job of a run: a task job or the engine job
JobNames == {"task-r1", "engine-r1"}
Runs == {"r1"}
NoStatus == [Succeeded |-> 0, Failed |-> 0, Active |-> 0]
\* no request has been answered yet
\* no sampler has been spawned
NoPods == [err |-> FALSE, items |-> 0]
NoSampler == [path |-> "", pc |-> "idle", period |-> 0, pods |-> NoPods,
              metrics |-> "", stats |-> <<>>]
\* the packer process starts in /home; no pack call has been made
StartDir == <<"/", "home">>
Callers == {1, 2}
NoCall == [pc |-> "idle", path |-> <<>>, prevPath |-> <<>>, absPath |-> <<>>,
           err |-> ""]
\* a string of a YAML or JSON document
Str(s) == [k |-> "string", v |-> s]
\* nothing has been given to the packer's conversion
NoConversion == [pc |-> "idle", key |-> "", id |-> "", order |-> <<>>,
                 i |-> Str(""), out |-> Str(""), again |-> Str("")]
NoFetch == [kind |-> "", status |-> "", runIDs |-> <<>>]
NoResponse == [handler |-> "", token |-> "", reply |-> "", code |-> 0,
               header |-> "", body |-> "", fetched |-> NoFetch]
\* no task job has been dispatched for the tool
NoTool == [pc |-> "idle", built |-> FALSE, reply |-> "", JobID |-> "",
           JobName |-> "", Log |-> [JobID |-> "", JobName |-> ""], err |-> ""]
\* Task.Run has not been called
NoSeq == [mode |-> "idle", unFinishedSteps |-> <<>>, curStepID |-> <<>>,
          ran |-> <<>>, concurrent |-> <<>>]
\* Validate has not been called
NoValidator == [pc |-> "idle", Workflow |-> <<>>, stack |-> <<>>, Main |-> <<>>,
                ByProcess |-> <<>>, valid |-> FALSE]
Init ==
    /\ engine = "start"
    /\ docId \in DocIds
    /\ input \in 1..MaxInput
    /\ tasks = EmptyMap
    /\ Parameters = EmptyMap
    /\ Outputs = EmptyMap
    /\ Scatter = EmptyMap
    /\ outputIDMap = EmptyMap
    /\ pc = EmptyMap
    /\ idx = EmptyMap
    /\ job = EmptyMap
    /\ jobs = [n \in JobNames |-> [phase |-> "none", status |-> NoStatus]]
    /\ reaper = [pc |-> "list", list |-> <<>>, i |-> 1, err |-> ""]
    /\ cancelled = {}
    /\ response = NoResponse
    /\ Done = FALSE
    /\ Series = <<>>
    /\ sampler = NoSampler
    /\ packing = "idle"
    /\ packStack = <<>>
    /\ Graph = <<>>
    /\ cwd = StartDir
    /\ calls = [c \in Callers |-> NoCall]
    /\ conv = NoConversion
    /\ validator = NoValidator
    /\ sequential = NoSeq
    /\ tool = [r \in Runs |-> NoTool]

(***************************************************************************)
(* RunWorkflow up to the call of mainTask.GoRun().                         *)
(***************************************************************************)
\* a resolver that goes on when a process is missing
resolveNeverFails(sub) == FALSE

\* resolveGraph: subworkflow, ok := rootMap[step.Run.Value]; if !ok { panic }
resolveFails(sub) == \E r \in sub : r.Root = NoRoot

RunWorkflow ==
    /\ engine = "start"
    /\ LET rootMap == flatRoots(Graphs(docId))
       IN  IF "#main" \notin DOMAIN rootMap
           THEN \* panic: can't find main workflow
                /\ engine' = "panicked"
                /\ UNCHANGED <<tasks, Parameters, Outputs, Scatter, outputIDMap, pc, idx, job>>
           ELSE LET sub == resolveGraph(rootMap, mainPath, "#main")
                    all == sub \cup {[path |-> mainPath, Root |-> "#main",
                                      originalStep |-> NoStep, ScatterIndex |-> 0,
                                      Parameters |-> EmptyMap]}
                    paths == {r.path : r \in all}
                    rec(p) == CHOOSE r \in all : r.path = p
                IN  IF resolveFails(sub)
                    THEN \* resolveGraph panics: can't find workflow
                         /\ engine' = "panicked"
                         /\ UNCHANGED <<tasks, Parameters, Outputs, Scatter,
                                        outputIDMap, pc, idx, job>>
                    ELSE /\ engine' = "running"
                         /\ tasks' = [p \in paths |->
                                [Root |-> rec(p).Root, originalStep |-> rec(p).originalStep,
                                 ScatterIndex |-> 0]]
                         \* params["#main/"+id] = value; children get make(cwl.Parameters)
                         /\ Parameters' = [p \in paths |->
                                IF p = mainPath
                                THEN [k \in {"#main/" \o id : id \in DOMAIN originalParams(input)}
                                        |-> originalParams(input)[TrimPrefix(k, "#main/")]]
                                ELSE rec(p).Parameters]
                         /\ Outputs' = [p \in paths |-> EmptyMap]
                         /\ Scatter' = [p \in paths |-> <<>>]
                         /\ outputIDMap' = [p \in paths |-> EmptyMap]
                         /\ pc' = [p \in paths |->
                                IF p = mainPath THEN "GoRun" ELSE "notStarted"]
                         /\ idx' = [p \in paths |-> 1]
                         /\ job' = [p \in paths |-> "none"]
    /\ UNCHANGED <<docId, input>>
    /\ UNCHANGED besideScheduler

(***************************************************************************)
(* The concurrent scheduler.  One activity per task: the goroutine that    *)
(* RunSteps starts for a step runs runStep and then GoRun on the task.     *)
(***************************************************************************)
Running == engine = "running"

\* GoRun has been entered on t
entered(t) ==
    t \in DOMAIN pc /\ pc[t] \notin {"notStarted", "runStep", "runStepSleep", "GoRun"}
\* GoRun has returned on t
returned(t) == t \in DOMAIN pc /\ pc[t] = "returned"

\* runStep, one `in` entry of curStep.  A sibling-output source is polled:
\* this is the body of one iteration of the wait loop, up to its sleep.
runStep(t) ==
    /\ Running
    /\ pc[t] = "runStep"
    /\ idx[t] <= Len(tasks[t].originalStep.In)
    /\ LET curStep == tasks[t].originalStep
           parentTask == parentOf(t)
           in == curStep.In[idx[t]]
           taskInput == step2taskID(curStep, in.ID)
       IN  IF in.Source = <<>>
           THEN \* input.Source[0]: index out of range
                /\ engine' = "panicked"
                /\ UNCHANGED <<Parameters, pc, idx>>
           ELSE LET source == in.Source[1]
                IN  IF source \in DOMAIN outputIDMap[parentTask]
                    THEN LET depStepID == outputIDMap[parentTask][source]
                             depTask == Child(parentTask, depStepID)
                             outputID == tasks[depTask].Root \o TrimPrefix(source, depStepID)
                         IN  /\ Parameters' =
                                    IF Cardinality(DOMAIN Outputs[depTask]) > 0
                                    THEN [Parameters EXCEPT ![t] =
                                            Put(@, taskInput, Get(Outputs[depTask], outputID))]
                                    ELSE Parameters
                             /\ pc' = [pc EXCEPT ![t] = "runStepSleep"]
                             /\ UNCHANGED <<engine, idx>>
                    ELSE IF HasPrefix(source, tasks[parentTask].Root)
                    THEN /\ Parameters' = [Parameters EXCEPT ![t] =
                                Put(@, taskInput, Get(Parameters[parentTask], source))]
                         /\ idx' = [idx EXCEPT ![t] = @ + 1]
                         /\ UNCHANGED <<engine, pc>>
                    ELSE /\ idx' = [idx EXCEPT ![t] = @ + 1]
                         /\ UNCHANGED <<engine, pc, Parameters>>
    /\ UNCHANGED <<docId, input, tasks, Outputs, Scatter, outputIDMap, job>>
    /\ UNCHANGED besideScheduler

\* the wait loop after its sleep: _, inputPresent = task.Parameters[taskInput]
runStepSleep(t) ==
    /\ Running
    /\ pc[t] = "runStepSleep"
    /\ LET curStep == tasks[t].originalStep
           taskInput == step2taskID(curStep, curStep.In[idx[t]].ID)
       IN  idx' = [idx EXCEPT ![t] =
                    IF taskInput \in DOMAIN Parameters[t] THEN @ + 1 ELSE @]
    /\ pc' = [pc EXCEPT ![t] = "runStep"]
    /\ UNCHANGED <<engine, docId, input, tasks, Parameters, Outputs, Scatter,
                   outputIDMap, job>>
    /\ UNCHANGED besideScheduler

\* step input ID maps to [sub]task input ID
idMaps(curStep, i) ==
    IF \E k \in DOMAIN curStep.In : curStep.In[k].ID = i
    THEN step2taskID(curStep, i)
    ELSE ""

\* runStep after the loop over curStep.In: record the scatter inputs, call GoRun
runStepEnd(t) ==
    /\ Running
    /\ pc[t] = "runStep"
    /\ idx[t] > Len(tasks[t].originalStep.In)
    /\ LET curStep == tasks[t].originalStep
       IN  Scatter' = [Scatter EXCEPT ![t] =
                @ \o [k \in DOMAIN curStep.Scatter |-> idMaps(curStep, curStep.Scatter[k])]]
    /\ pc' = [pc EXCEPT ![t] = "GoRun"]
    /\ idx' = [idx EXCEPT ![t] = 1]
    /\ UNCHANGED <<engine, docId, input, tasks, Parameters, Outputs, outputIDMap, job>>
    /\ UNCHANGED besideScheduler

\* RunSteps: setupOutputMap, then one goroutine per child
RunSteps(t) ==
    /\ outputIDMap' = [outputIDMap EXCEPT ![t] = setupOutputMap(Root(t))]
    /\ pc' = [c \in DOMAIN pc |->
                IF c \in Children(t) THEN "runStep"
                ELSE IF c = t THEN "mergeChildOutputs"
                ELSE pc[c]]

\* GoRun on a workflow task, up to the call of mergeChildOutputs
GoRunWorkflow(t) ==
    /\ Running
    /\ pc[t] = "GoRun"
    /\ Scatter[t] = <<>>  \* task.Scatter == nil
    /\ isWorkflow(t)
    /\ RunSteps(t)
    /\ UNCHANGED <<engine, docId, input, tasks, Parameters, Outputs, Scatter, idx, job>>
    /\ UNCHANGED besideScheduler

\* GoRun on a leaf task, up to the call of Engine.DispatchTask
GoRunTool(t) ==
    /\ Running
    /\ pc[t] = "GoRun"
    /\ Scatter[t] = <<>>
    /\ ~isWorkflow(t)
    /\ pc' = [pc EXCEPT ![t] = "DispatchTask"]
    /\ UNCHANGED <<engine, docId, input, tasks, Parameters, Outputs, Scatter,
                   outputIDMap, idx, job>>
    /\ UNCHANGED besideScheduler

\* mergeChildOutputs, entry: task.Outputs = make(cwl.Parameters)
mergeChildOutputs(t) ==
    /\ Running
    /\ pc[t] = "mergeChildOutputs"
    /\ Outputs' = [Outputs EXCEPT ![t] = EmptyMap]
    /\ idx' = [idx EXCEPT ![t] = 1]
    /\ pc' = [pc EXCEPT ![t] = "mergeLoop"]
    /\ UNCHANGED <<engine, docId, input, tasks, Parameters, Scatter, outputIDMap, job>>
    /\ UNCHANGED besideScheduler

\* a gather that takes the first of any number of sources
anySource(output) == Len(output.Source) >= 1

\* mergeChildOutputs: if len(output.Source) == 1
singleSource(output) == Len(output.Source) = 1

\* a store that drops the outputs merged before
mergedOutputsReset(outs, outputID, outputVal) == Put(EmptyMap, outputID, outputVal)

\* the value mergeChildOutputs stores for a declared output found in a child
mergedOutputs(outs, outputID, outputVal) == Put(outs, outputID, outputVal)

\* mergeChildOutputs, one declared output: the body of one iteration of its
\* wait loop, up to the sleep; past the last output it returns, and so does GoRun
mergeLoop(t) ==
    /\ Running
    /\ pc[t] = "mergeLoop"
    /\ IF idx[t] > Len(Root(t).Outputs)
       THEN /\ pc' = [pc EXCEPT ![t] = "returned"]
            /\ UNCHANGED <<engine, Outputs>>
       ELSE LET output == Root(t).Outputs[idx[t]]
            IN  IF ~singleSource(output)
                THEN \* panic: NOT SUPPORTED
                     /\ engine' = "panicked"
                     /\ UNCHANGED <<pc, Outputs>>
                ELSE IF output.Source[1] \notin DOMAIN outputIDMap[t]
                THEN \* panic: Can't find output source
                     /\ engine' = "panicked"
                     /\ UNCHANGED <<pc, Outputs>>
                ELSE LET source == output.Source[1]
                         stepID == outputIDMap[t][source]
                         child == Child(t, stepID)
                         subtaskOutputID == step2taskID(tasks[child].originalStep, source)
                     IN  /\ Outputs' =
                                IF subtaskOutputID \in DOMAIN Outputs[child]
                                THEN [Outputs EXCEPT ![t] =
                                        mergedOutputs(@, output.ID,
                                                      Outputs[child][subtaskOutputID])]
                                ELSE Outputs
                         /\ pc' = [pc EXCEPT ![t] = "mergeSleep"]
                         /\ UNCHANGED engine
    /\ UNCHANGED <<docId, input, tasks, Parameters, Scatter, outputIDMap, idx, job>>
    /\ UNCHANGED besideScheduler

\* a wait loop that does not wait
outputPresentUnchecked(outs, outputID) == TRUE

\* a wait loop that never sees its output
outputNeverPresent(outs, outputID) == FALSE

\* _, outputPresent = task.Outputs[output.ID]
outputPresent(outs, outputID) == outputID \in DOMAIN outs

\* the wait loop after its sleep: it goes on to the next declared output
\* once the output is present
mergeSleep(t) ==
    /\ Running
    /\ pc[t] = "mergeSleep"
    /\ idx' = [idx EXCEPT ![t] =
                IF outputPresent(Outputs[t], Root(t).Outputs[idx[t]].ID) THEN @ + 1 ELSE @]
    /\ pc' = [pc EXCEPT ![t] = "mergeLoop"]
    /\ UNCHANGED <<engine, docId, input, tasks, Parameters, Outputs, Scatter,
                   outputIDMap, job>>
    /\ UNCHANGED besideScheduler

(***************************************************************************)
(* Leaf tasks: Engine.DispatchTask submits the job (dispatchTaskJob),      *)
(* observes it until it is terminal and, on success, stores the declared   *)
(* outputs in the task's Outputs.                                          *)
(***************************************************************************)
\* dispatchTaskJob: jobsClient.Create succeeds, or fails with an error
dispatchTaskJob(t) ==
    /\ Running
    /\ pc[t] = "DispatchTask"
    /\ \E created \in BOOLEAN :
         IF created
         THEN /\ job' = [job EXCEPT ![t] = "running"]
              /\ pc' = [pc EXCEPT ![t] = "observe"]
         ELSE \* the error is returned; GoRun discards it and returns nil
              /\ job' = [job EXCEPT ![t] = "failed"]
              /\ pc' = [pc EXCEPT ![t] = "returned"]
    /\ UNCHANGED <<engine, docId, input, tasks, Parameters, Outputs, Scatter,
                   outputIDMap, idx>>
    /\ UNCHANGED besideScheduler

\* the job reaches a terminal state: Succeeded >= 1 or Failed >= 1
observeJob(t) ==
    /\ Running
    /\ pc[t] = "observe"
    /\ \E succeeded \in BOOLEAN :
         IF succeeded
         THEN /\ job' = [job EXCEPT ![t] = "completed"]
              /\ pc' = [pc EXCEPT ![t] = "collectOutput"]
         ELSE /\ job' = [job EXCEPT ![t] = "failed"]
              /\ pc' = [pc EXCEPT ![t] = "returned"]
    /\ UNCHANGED <<engine, docId, input, tasks, Parameters, Outputs, Scatter,
                   outputIDMap, idx>>
    /\ UNCHANGED besideScheduler

\* the declared outputs are stored one key at a time; with the last one
\* stored DispatchTask, and so GoRun, returns
collectOutput(t) ==
    /\ Running
    /\ pc[t] = "collectOutput"
    /\ IF Len(Root(t).Outputs) = 0
       THEN /\ pc' = [pc EXCEPT ![t] = "returned"]
            /\ UNCHANGED <<Outputs, idx>>
       ELSE /\ Outputs' = [Outputs EXCEPT ![t] =
                    Put(@, Root(t).Outputs[idx[t]].ID,
                        ToolOutput(Root(t), Parameters[t], idx[t]))]
            /\ idx' = [idx EXCEPT ![t] = @ + 1]
            /\ pc' = [pc EXCEPT ![t] =
                    IF idx[t] = Len(Root(t).Outputs) THEN "returned" ELSE @]
    /\ UNCHANGED <<engine, docId, input, tasks, Parameters, Scatter, outputIDMap, job>>
    /\ UNCHANGED besideScheduler

(***************************************************************************)
(* Scatter and gather (runScatter, gatherScatterOutputs).                  *)
(***************************************************************************)
\* the number of scatter subtasks: the common length of the scattered
\* arrays, or -1 when a scattered input is no array or the lengths differ
scatterLength(params, keys) ==
    LET lens == {IF isArr(Get(params, keys[j])) THEN Len(Get(params, keys[j]).v) ELSE -1
                    : j \in DOMAIN keys}
    IN  IF Cardinality(lens) = 1 THEN CHOOSE n \in lens : TRUE ELSE -1

\* the parameters of subtask i: its slice of every scattered input, and
\* the same value for every other input
scatterParams(params, keys, i) ==
    [k \in DOMAIN params |-> IF k \in Range(keys) THEN params[k].v[i] ELSE params[k]]

\* GoRun on a task with scatter inputs: runScatter creates one subtask per
\* element and runs them concurrently
runScatter(t) ==
    /\ Running
    /\ pc[t] = "GoRun"
    /\ Scatter[t] # <<>>
    /\ LET n == scatterLength(Parameters[t], Scatter[t])
           subs == IF n < 0 THEN {} ELSE {ScatterTask(t, i) : i \in 1..n}
           index(c) == CHOOSE i \in 1..n : ScatterTask(t, i) = c
           ext(f, new(_)) == [c \in DOMAIN f \cup subs |-> IF c \in subs THEN new(c) ELSE f[c]]
           rec(c) == [Root |-> tasks[t].Root, originalStep |-> tasks[t].originalStep,
                      ScatterIndex |-> index(c)]
           par(c) == scatterParams(Parameters[t], Scatter[t], index(c))
           empty(c) == EmptyMap
           noScatter(c) == <<>>
           start(c) == "GoRun"
           one(c) == 1
           none(c) == "none"
       IN  /\ tasks' = ext(tasks, rec)
           /\ Parameters' = ext(Parameters, par)
           /\ Outputs' = ext(Outputs, empty)
           /\ Scatter' = ext(Scatter, noScatter)
           /\ outputIDMap' = ext(outputIDMap, empty)
           /\ pc' = [ext(pc, start) EXCEPT ![t] =
                        IF n < 0 THEN "returned" ELSE "gatherScatterOutputs"]
           /\ idx' = ext(idx, one)
           /\ job' = [ext(job, none) EXCEPT ![t] = IF n < 0 THEN "failed" ELSE @]
    /\ UNCHANGED <<engine, docId, input>>
    /\ UNCHANGED besideScheduler

\* a gather in the reverse of the creation order
gatheredOutputReversed(t, outputID, n) ==
    Arr([i \in 1..n |-> Outputs[ScatterTask(t, n + 1 - i)][outputID]])

\* the array gathered for one output: element i is the output of subtask i
gatheredOutput(t, outputID, n) ==
    Arr([i \in 1..n |-> Outputs[ScatterTask(t, i)][outputID]])

\* gatherScatterOutputs: once every subtask holds the output, collect it
\* into an array in subtask creation order; with the last output gathered
\* GoRun returns
gatherScatterOutputs(t) ==
    /\ Running
    /\ pc[t] = "gatherScatterOutputs"
    /\ LET n == Cardinality(ScatterTasks(t))
       IN  IF Len(Root(t).Outputs) = 0
           THEN /\ \A c \in ScatterTasks(t) : returned(c)
                /\ pc' = [pc EXCEPT ![t] = "returned"]
                /\ UNCHANGED <<Outputs, idx>>
           ELSE LET outputID == Root(t).Outputs[idx[t]].ID
                IN  /\ \A c \in ScatterTasks(t) : outputID \in DOMAIN Outputs[c]
                    /\ Outputs' = [Outputs EXCEPT ![t] =
                            Put(@, outputID, gatheredOutput(t, outputID, n))]
                    /\ idx' = [idx EXCEPT ![t] = @ + 1]
                    /\ pc' = [pc EXCEPT ![t] =
                            IF idx[t] = Len(Root(t).Outputs) THEN "returned" ELSE @]
    /\ UNCHANGED <<engine, docId, input, tasks, Parameters, Scatter, outputIDMap, job>>
    /\ UNCHANGED besideScheduler

\* RunWorkflow after mainTask.GoRun() has returned
RunWorkflowReturn ==
    /\ Running
    /\ pc[mainPath] = "returned"
    /\ engine' = "finished"
    /\ UNCHANGED <<docId, input, tasks, Parameters, Outputs, Scatter, outputIDMap,
                   pc, idx, job>>
    /\ UNCHANGED besideScheduler

Next ==
    \/ RunWorkflow
    \/ RunWorkflowReturn
    \/ \E t \in DOMAIN tasks : runStep(t)
    \/ \E t \in DOMAIN tasks : runStepSleep(t)
    \/ \E t \in DOMAIN tasks : runStepEnd(t)
    \/ \E t \in DOMAIN tasks : GoRunWorkflow(t)
    \/ \E t \in DOMAIN tasks : GoRunTool(t)
    \/ \E t \in DOMAIN tasks : mergeChildOutputs(t)
    \/ \E t \in DOMAIN tasks : mergeLoop(t)
    \/ \E t \in DOMAIN tasks : mergeSleep(t)
    \/ \E t \in DOMAIN tasks : dispatchTaskJob(t)
    \/ \E t \in DOMAIN tasks : observeJob(t)
    \/ \E t \in DOMAIN tasks : collectOutput(t)
    \/ \E t \in DOMAIN tasks : runScatter(t)
    \/ \E t \in DOMAIN tasks : gatherScatterOutputs(t)

Spec == Init /\ [][Next]_vars

(***************************************************************************)
(* Fairness: every started goroutine keeps being scheduled by the Go       *)
(* runtime, so each activity that can take a step eventually takes it.     *)
(***************************************************************************)
\* every task path of every document of the model
StepPaths ==
    {mainPath} \cup
    UNION {IF "#main" \in DOMAIN flatRoots(Graphs(d))
           THEN {r.path : r \in resolveGraph(flatRoots(Graphs(d)), mainPath, "#main")}
           ELSE {}
              : d \in DocIds}
AllPaths == StepPaths \cup {ScatterTask(t, i) : t \in StepPaths, i \in 1..MaxScatter}

\* one step of the activity that drives task t
Activity(t) ==
    /\ t \in DOMAIN tasks
    /\ \/ runStep(t) \/ runStepSleep(t) \/ runStepEnd(t)
       \/ GoRunWorkflow(t) \/ GoRunTool(t)
       \/ mergeChildOutputs(t) \/ mergeLoop(t) \/ mergeSleep(t)
       \/ dispatchTaskJob(t) \/ observeJob(t) \/ collectOutput(t)
       \/ runScatter(t) \/ gatherScatterOutputs(t)

FairSpec ==
    /\ Spec
    /\ WF_vars(RunWorkflow)
    /\ WF_vars(RunWorkflowReturn)
    /\ \A t \in AllPaths : WF_vars(Activity(t))

(***************************************************************************)
(* Properties of the scheduler.                                            *)
(***************************************************************************)
WorkflowTasks == {t \in DOMAIN tasks : isWorkflow(t)}
StepTasks == {t \in DOMAIN tasks : t # mainPath /\ tasks[t].ScatterIndex = 0}

\* the `in` entries of the step of t whose source is an output of a sibling step
SiblingInputs(t) ==
    {i \in DOMAIN tasks[t].originalStep.In :
        /\ tasks[t].originalStep.In[i].Source # <<>>
        /\ tasks[t].originalStep.In[i].Source[1]
              \in DOMAIN setupOutputMap(Root(parentOf(t)))}

\* the sibling task that produces the source of `in` entry i of t
depTaskOf(t, i) ==
    Child(parentOf(t),
          setupOutputMap(Root(parentOf(t)))[tasks[t].originalStep.In[i].Source[1]])

\* the id under which that sibling holds the output
depOutputID(t, i) ==
    LET source == tasks[t].originalStep.In[i].Source[1]
    IN  tasks[depTaskOf(t, i)].Root
           \o TrimPrefix(source, setupOutputMap(Root(parentOf(t)))[source])

\* C1: a step's task is run (GoRun entered) only after its Parameters holds
\* an entry under the task input id of every `in` entry of the step,
\* whatever the entry's source.
C1_RunOnlyAfterAllInputsBound ==
    \A t \in StepTasks :
        entered(t) =>
            \A i \in DOMAIN tasks[t].originalStep.In :
                step2taskID(tasks[t].originalStep, tasks[t].originalStep.In[i].ID)
                    \in DOMAIN Parameters[t]

\* C2: an input bound from a sibling step's output holds the value the
\* sibling task holds under the rewritten output id; an absent value is
\* never bound.
C2_SiblingInputIsSiblingOutput ==
    \A t \in StepTasks :
        \A i \in SiblingInputs(t) :
            LET taskInput == step2taskID(tasks[t].originalStep,
                                         tasks[t].originalStep.In[i].ID)
            IN  taskInput \in DOMAIN Parameters[t] =>
                    /\ depOutputID(t, i) \in DOMAIN Outputs[depTaskOf(t, i)]
                    /\ Parameters[t][taskInput]
                          = Outputs[depTaskOf(t, i)][depOutputID(t, i)]

\* C3: a step B that takes an output of step A as a source enters GoRun
\* only after A's GoRun has returned.
C3_ConsumerStartsAfterProducerEnds ==
    \A t \in StepTasks :
        entered(t) => \A i \in SiblingInputs(t) : returned(depTaskOf(t, i))

\* C4: output mappings are write-once: a key present in a task's Outputs
\* stays present with the same value in every later state.
C4_OutputsWriteOnce ==
    [][\A t \in DOMAIN Outputs :
          \A k \in DOMAIN Outputs[t] :
              /\ t \in DOMAIN Outputs'
              /\ k \in DOMAIN Outputs'[t]
              /\ Outputs'[t][k] = Outputs[t][k]]_vars

\* C4 witness: a sub-workflow has published both of its outputs and has
\* returned while other activities went on
C4_Witness ==
    \E t \in WorkflowTasks :
        /\ t # mainPath
        /\ returned(t)
        /\ Cardinality(DOMAIN Outputs[t]) = 2
        /\ returned(mainPath)

\* the child task and the id under which it holds declared output o of t
producerOf(t, o) ==
    Child(t, setupOutputMap(Root(t))[o.Source[1]])
producedID(t, o) ==
    step2taskID(tasks[producerOf(t, o)].originalStep, o.Source[1])

DeclaredOutputs(t) == Range(Root(t).Outputs)

\* C5: when the run of a workflow task completes, every declared output
\* has an entry in its Outputs, equal to the value the producing child
\* holds under step2taskID(step, outputSource).
C5_CompletedWorkflowHasAllOutputs ==
    \A t \in WorkflowTasks :
        returned(t) =>
            \A o \in DeclaredOutputs(t) :
                /\ o.ID \in DOMAIN Outputs[t]
                /\ producedID(t, o) \in DOMAIN Outputs[producerOf(t, o)]
                /\ Outputs[t][o.ID] = Outputs[producerOf(t, o)][producedID(t, o)]

\* C5 witness: the root workflow and a sub-workflow with two outputs have
\* both completed, and the run has returned
C5_Witness ==
    /\ engine = "finished"
    /\ \E t \in WorkflowTasks :
          t # mainPath /\ returned(t) /\ Len(Root(t).Outputs) = 2

\* C6: a workflow task's Outputs has an entry only when every child that
\* produces one of its declared output sources has published that output.
C6_OutputsOnlyAfterAllProducers ==
    \A t \in WorkflowTasks :
        DOMAIN Outputs[t] # {} =>
            \A o \in DeclaredOutputs(t) :
                (Len(o.Source) = 1 /\ o.Source[1] \in DOMAIN setupOutputMap(Root(t))) =>
                    producedID(t, o) \in DOMAIN Outputs[producerOf(t, o)]

\* a child of t whose job failed, so that it never publishes its outputs
failedChild(t) ==
    /\ t \in DOMAIN tasks
    /\ \E c \in Children(t) : job[c] = "failed"

\* the gather (mergeChildOutputs) of t has ended
gatherEnded(t) == returned(t)

\* C7: when a child task fails, the gather of its parent workflow task
\* terminates (and marks the parent failed): the parent does not wait
\* forever for the missing output.
C7_FailurePropagates ==
    \A t \in AllPaths : failedChild(t) ~> gatherEnded(t)

\* C8: GoRun on a workflow task, and so RunWorkflow, returns only after
\* every step activity it launched has finished.
C8_ReturnsAfterAllSteps ==
    /\ \A t \in WorkflowTasks :
          returned(t) => \A c \in Children(t) : returned(c)
    /\ engine = "finished" => \A t \in DOMAIN tasks : returned(t)

(***************************************************************************)
(* The values the dataflow of the packed workflow defines: every input     *)
(* takes the value of its source, every tool output is the tool's function *)
(* of its inputs, every workflow output is the value of its outputSource.  *)
(***************************************************************************)
indexOf(seq, x) == CHOOSE i \in DOMAIN seq : seq[i] = x

RECURSIVE dataflowOutput(_, _), dataflowInput(_, _)
\* the value of output outputID of task t
dataflowOutput(t, outputID) ==
    IF isWorkflow(t)
    THEN LET o == CHOOSE o \in DeclaredOutputs(t) : o.ID = outputID
         IN  dataflowOutput(producerOf(t, o), producedID(t, o))
    ELSE LET ins == Root(t).Inputs
             params == [k \in Range(ins) |-> dataflowInput(t, k)]
             outs == [i \in DOMAIN Root(t).Outputs |-> Root(t).Outputs[i].ID]
             curStep == tasks[t].originalStep
             keys == [j \in DOMAIN curStep.Scatter |-> idMaps(curStep, curStep.Scatter[j])]
         IN  IF keys = <<>>
             THEN ToolOutput(Root(t), params, indexOf(outs, outputID))
             ELSE Arr([i \in 1..scatterLength(params, keys) |->
                        ToolOutput(Root(t), scatterParams(params, keys, i),
                                   indexOf(outs, outputID))])

\* the value of input taskInput of task t
dataflowInput(t, taskInput) ==
    IF t = mainPath
    THEN Get(Parameters[mainPath], taskInput)
    ELSE LET curStep == tasks[t].originalStep
             entries == {i \in DOMAIN curStep.In :
                            step2taskID(curStep, curStep.In[i].ID) = taskInput}
         IN  IF entries = {}
             THEN Nil
             ELSE LET i == CHOOSE i \in entries : TRUE
                      source == curStep.In[i].Source[1]
                  IN  IF i \in SiblingInputs(t)
                      THEN dataflowOutput(depTaskOf(t, i), depOutputID(t, i))
                      ELSE IF HasPrefix(source, tasks[parentOf(t)].Root)
                      THEN dataflowInput(parentOf(t), source)
                      ELSE Nil

\* C9: output values are deterministic: every interleaving of the step
\* activities and polling waits ends with the same root Outputs, the ones
\* the dataflow of the workflow defines for the given inputs.
C9_OutputsDeterministic ==
    returned(mainPath) =>
        \A o \in DeclaredOutputs(mainPath) :
            Get(Outputs[mainPath], o.ID) = dataflowOutput(mainPath, o.ID)

\* some interleaving does end with the outputs the dataflow defines
C9_DataflowOutcomeReached ==
    /\ docId = "sub"
    /\ returned(mainPath)
    /\ \A o \in DeclaredOutputs(mainPath) :
          Get(Outputs[mainPath], o.ID) = dataflowOutput(mainPath, o.ID)

(***************************************************************************)
(* The server and the orchestrator's jobs (src/mariner/server.go).         *)
(***************************************************************************)
\* the labels of a job: app and run id
isEngineJob(n) == n \in {"engine-r1", "engine-r2"}
appOf(n) == IF isEngineJob(n) THEN "mariner-engine" ELSE "mariner-task"
runOf(n) == IF n \in {"task-r1", "engine-r1"} THEN "r1" ELSE "r2"
engineJobOf(r) == IF r = "r1" THEN "engine-r1" ELSE "engine-r2"
taskJobOf(r) == IF r = "r1" THEN "task-r1" ELSE "task-r2"

\* the order in which the orchestrator lists jobs
ListOrder == <<"task-r1", "engine-r1">>

present(n) == jobs[n].phase = "present"

\* a nil *batchv1.JobStatus: the status with no field
NilStatus == <<>>

\* a status derivation that tests the failed pods before the succeeded ones
jobStatusFailedFirst(status) ==
    IF DOMAIN status = {} THEN "unknown"
    ELSE IF status.Failed >= 1 THEN "failed"
    ELSE IF status.Succeeded >= 1 THEN "completed"
    ELSE IF status.Active >= 1 THEN "running"
    ELSE "unknown"

\* jobStatusToString
jobStatusToString(status) ==
    IF DOMAIN status = {} THEN "unknown"
    ELSE IF status.Succeeded >= 1 THEN "completed"
    ELSE IF status.Failed >= 1 THEN "failed"
    ELSE IF status.Active >= 1 THEN "running"
    ELSE "unknown"

RECURSIVE jobsClientList(_, _)
\* jobsClient.List with a label selector: the present jobs of that app
jobsClientList(seq, app) ==
    IF seq = <<>> THEN <<>>
    ELSE (IF present(Head(seq)) /\ appOf(Head(seq)) = app THEN <<Head(seq)>> ELSE <<>>)
            \o jobsClientList(Tail(seq), app)

\* a listing that leaves out the engine jobs
listTaskJobs == jobsClientList(ListOrder, "mariner-task")

\* listMarinerJobs: the task jobs, then the engine jobs
listMarinerJobs == jobsClientList(ListOrder, "mariner-task") \o jobsClientList(ListOrder, "mariner-engine")

\* an authZ that asks arborist even without a token
authZAnyToken(token, reply) == reply = "authTrue"

\* authZ: no token, a failed request to arborist, an unreadable or
\* unparsable reply and auth = false all deny
authZ(token, reply) == token # "" /\ reply = "authTrue"
Tokens == {"", "tok"}
ArboristReplies == {"postError", "readError", "parseError", "authFalse", "authTrue"}

\* what the server answers: the handler the router chose, the request's
\* token, arborist's reply to the auth request, and the status code
\* the http.ResponseWriter of a request before any handler has used it
NoWriter == [header |-> "", code |-> 0, body |-> ""]

\* setResponseHeader: w.Header().Set("Content-Type", "application/json")
setResponseHeader(w) == [w EXCEPT !.header = "application/json"]

\* http.Error: it sets the Content-Type to text/plain, then writes the
\* status code and the message
httpError(w, error, code) ==
    [w EXCEPT !.header = "text/plain; charset=utf-8", !.code = code,
              !.body = error \o "\n"]

\* json.NewEncoder(w).Encode(j) for the JSON text j: the first write sends
\* status 200
Encode(w, j) == [w EXCEPT !.code = 200, !.body = j \o "\n"]

\* a handler that returns without writing: the server sends status 200 and
\* no body
written(w) == IF w.code = 0 THEN [w EXCEPT !.code = 200] ELSE w

\* JSON of a Go string, of a []string and of an error value: an error has
\* no exported field, and a nil one is null
jsonString(str) == "\"" \o str \o "\""

RECURSIVE jsonElements(_)
jsonElements(seq) ==
    IF seq = <<>> THEN ""
    ELSE IF Len(seq) = 1 THEN jsonString(seq[1])
    ELSE jsonString(seq[1]) \o "," \o jsonElements(Tail(seq))

jsonStrings(seq) == "[" \o jsonElements(seq) \o "]"
jsonError(failed) == IF failed THEN "{}" ELSE "null"

\* what fetchMainLog(userID, runID) may return: an error, or the main log
\* of the run with its status
MainLogs ==
    {[kind |-> "error", status |-> "", runIDs |-> <<>>]}
    \cup [kind : {"log"}, status : {"running", "completed", "failed"},
          runIDs : {<<>>}]

\* what listRuns(userID) may return: an error, or the caller's run ids
RunLists ==
    {[kind |-> "error", status |-> "", runIDs |-> <<>>]}
    \cup [kind : {"runs"}, status : {""}, runIDs : {<<>>, <<"r1">>}]

\* the response the server has sent, with the request it answers and what
\* the handler fetched
respond(handler, token, reply, fetched, w) ==
    [handler |-> handler, token |-> token, reply |-> reply,
     code |-> written(w).code, header |-> w.header, body |-> w.body,
     fetched |-> fetched]

\* handleAuth: next.ServeHTTP(w, r) if authZ(r), else http.Error 403
handleAuth(handler, token, reply, next) ==
    IF authZ(token, reply)
    THEN next
    ELSE /\ response' = respond(handler, token, reply, NoFetch,
                 httpError(NoWriter, "user not authorized to access this resource", 403))
         /\ UNCHANGED <<jobs, cancelled>>

\* POST /runs: dispatchWorkflowJob creates the engine job of a new run, or
\* fails with 400
handleRunsPOST(r) ==
    /\ jobs[engineJobOf(r)].phase = "none"
    /\ \E token \in Tokens, reply \in ArboristReplies :
         handleAuth("handleRunsPOST", token, reply,
            \E created \in BOOLEAN :
               IF created
               THEN /\ jobs' = [jobs EXCEPT ![engineJobOf(r)].phase = "present"]
                    /\ response' = respond("handleRunsPOST", token, reply, NoFetch,
                          Encode(setResponseHeader(NoWriter),
                                 "{\"runID\":" \o jsonString(r) \o "}"))
                    /\ UNCHANGED cancelled
               ELSE /\ response' = respond("handleRunsPOST", token, reply, NoFetch,
                          httpError(setResponseHeader(NoWriter),
                                    "failed to create workflow job", 400))
                    /\ UNCHANGED <<jobs, cancelled>>)
    /\ UNCHANGED reaper
    /\ UNCHANGED besideServer

\* the body of handleCancelRunPOST: it is empty
cancelRun(r) == jobs

\* POST /runs/{runID}/cancel; the run id of the request is one that
\* handleRunsPOST has returned
handleCancelRunPOST(r) ==
    /\ jobs[engineJobOf(r)].phase # "none"
    /\ \E token \in Tokens, reply \in ArboristReplies :
         handleAuth("handleCancelRunPOST", token, reply,
            /\ jobs' = cancelRun(r)
            /\ cancelled' = cancelled \cup {r}
            /\ response' = respond("handleCancelRunPOST", token, reply, NoFetch,
                                    setResponseHeader(NoWriter)))
    /\ UNCHANGED reaper
    /\ UNCHANGED besideServer

\* the routes that only read: GET /runs, GET /runs/{runID},
\* GET /runs/{runID}/status and GET /_status
ReadHandlers == {"handleRunsGET", "handleRunLogGET", "handleRunStatusGET",
                 "handleHealthCheck"}

\* what a GET handler fetches: fetchLog and fetchStatus call fetchMainLog,
\* fetchRuns calls listRuns, handleHealthCheck fetches nothing
fetches(handler) ==
    IF handler \in {"handleRunLogGET", "handleRunStatusGET"} THEN MainLogs
    ELSE IF handler = "handleRunsGET" THEN RunLists
    ELSE {NoFetch}

\* handleRunsGET, handleRunLogGET, handleRunStatusGET: j is the error that
\* fetchLog, fetchStatus or fetchRuns returns, and j is what is encoded;
\* handleHealthCheck writes nothing
handleGET(handler) ==
    /\ \E token \in Tokens, reply \in ArboristReplies :
         handleAuth(handler, token, reply,
            /\ \E fetched \in fetches(handler) :
                  response' = respond(handler, token, reply, fetched,
                     IF handler = "handleHealthCheck"
                     THEN setResponseHeader(NoWriter)
                     ELSE Encode(setResponseHeader(NoWriter),
                                 jsonError(fetched.kind = "error")))
            /\ UNCHANGED <<jobs, cancelled>>)
    /\ UNCHANGED reaper
    /\ UNCHANGED besideServer

\* the engine of run r dispatches a task job (dispatchTaskJob, jobsClient.Create)
engineDispatchTaskJob(r) ==
    /\ present(engineJobOf(r))
    /\ jobStatusToString(jobs[engineJobOf(r)].status) = "running"
    /\ jobs[taskJobOf(r)].phase = "none"
    /\ jobs' = [jobs EXCEPT ![taskJobOf(r)].phase = "present"]
    /\ UNCHANGED <<reaper, cancelled, response>>
    /\ UNCHANGED besideServer

\* the orchestrator starts the pod of a job
jobStarts(n) ==
    /\ present(n)
    /\ jobs[n].status = NoStatus
    /\ jobs' = [jobs EXCEPT ![n].status.Active = 1]
    /\ UNCHANGED <<reaper, cancelled, response>>
    /\ UNCHANGED besideServer

\* the pod of a job ends: it succeeded or it failed
jobEnds(n) ==
    /\ present(n)
    /\ jobs[n].status.Active = 1
    /\ \E succeeded \in BOOLEAN :
         jobs' = [jobs EXCEPT ![n].status =
                    IF succeeded
                    THEN [@ EXCEPT !.Active = 0, !.Succeeded = 1]
                    ELSE [@ EXCEPT !.Active = 0, !.Failed = 1]]
    /\ UNCHANGED <<reaper, cancelled, response>>
    /\ UNCHANGED besideServer

\* deleteCompletedJobs, listMarinerJobs: on an error it sleeps and lists again
reaperList ==
    /\ reaper.pc = "list"
    /\ \E ok \in BOOLEAN :
         IF ok
         THEN reaper' = [pc |-> "delete", list |-> listMarinerJobs, i |-> 1, err |-> ""]
         ELSE UNCHANGED reaper
    /\ UNCHANGED <<jobs, cancelled, response>>
    /\ UNCHANGED besideServer

\* a pass that goes on to the next job after a failed delete
deleteJobsPastFailure(condition) ==
    /\ reaper.pc = "delete"
    /\ reaper.i <= Len(reaper.list)
    /\ LET n == reaper.list[reaper.i]
       IN  \E statusOk \in BOOLEAN, deleteOk \in BOOLEAN :
             IF ~statusOk \/ ~present(n)
             THEN /\ reaper' = [reaper EXCEPT !.i = @ + 1]
                  /\ UNCHANGED jobs
             ELSE IF jobStatusToString(jobs[n].status) = condition
             THEN IF deleteOk
                  THEN /\ jobs' = [jobs EXCEPT ![n].phase = "deleted"]
                       /\ reaper' = [reaper EXCEPT !.i = @ + 1]
                  ELSE /\ reaper' = [reaper EXCEPT !.i = @ + 1, !.err = n]
                       /\ UNCHANGED jobs
             ELSE /\ reaper' = [reaper EXCEPT !.i = @ + 1]
                  /\ UNCHANGED jobs
    /\ UNCHANGED <<cancelled, response>>
    /\ UNCHANGED besideServer

\* deleteJobs, one job of the list: jobStatusByID reads its status again; a
\* job whose status is the condition is deleted; a failed delete ends the pass
deleteJobs(condition) ==
    /\ reaper.pc = "delete"
    /\ reaper.i <= Len(reaper.list)
    /\ LET n == reaper.list[reaper.i]
       IN  \E statusOk \in BOOLEAN, deleteOk \in BOOLEAN :
             IF ~statusOk \/ ~present(n)
             THEN \* Can't get job status by UID
                  /\ reaper' = [reaper EXCEPT !.i = @ + 1]
                  /\ UNCHANGED jobs
             ELSE IF jobStatusToString(jobs[n].status) = condition
             THEN IF deleteOk
                  THEN /\ jobs' = [jobs EXCEPT ![n].phase = "deleted"]
                       /\ reaper' = [reaper EXCEPT !.i = @ + 1]
                  ELSE \* Error deleting job: return err
                       /\ reaper' = [pc |-> "list", list |-> <<>>, i |-> 1, err |-> n]
                       /\ UNCHANGED jobs
             ELSE /\ reaper' = [reaper EXCEPT !.i = @ + 1]
                  /\ UNCHANGED jobs
    /\ UNCHANGED <<cancelled, response>>
    /\ UNCHANGED besideServer

\* a reaper that deletes the failed jobs
deleteFailedJobs == deleteJobs("failed")

\* deleteCompletedJobs: deleteJobs(jobs, completed, jobsClient)
deleteCompletedJobs == deleteJobs("completed")

\* deleteJobs returns at the end of the list; deleteCompletedJobs sleeps
\* and lists again
reaperPassEnd ==
    /\ reaper.pc = "delete"
    /\ reaper.i > Len(reaper.list)
    /\ reaper' = [pc |-> "list", list |-> <<>>, i |-> 1, err |-> ""]
    /\ UNCHANGED <<jobs, cancelled, response>>
    /\ UNCHANGED besideServer

ServerNext ==
    \/ \E r \in Runs : handleRunsPOST(r)
    \/ \E r \in Runs : handleCancelRunPOST(r)
    \/ \E handler \in ReadHandlers : handleGET(handler)
    \/ \E r \in Runs : engineDispatchTaskJob(r)
    \/ \E n \in JobNames : jobStarts(n)
    \/ \E n \in JobNames : jobEnds(n)
    \/ reaperList
    \/ deleteCompletedJobs
    \/ reaperPassEnd

\* the server runs beside one fixed engine run
ServerInit == Init /\ docId = "linear" /\ input = 1

ServerSpec == ServerInit /\ [][ServerNext]_vars

\* the reaper loop runs for ever, the orchestrator drives every job to an
\* end, and every engine dispatches its task
FairServerSpec ==
    /\ ServerSpec
    /\ WF_vars(reaperList) /\ WF_vars(deleteCompletedJobs) /\ WF_vars(reaperPassEnd)
    /\ \A n \in JobNames : WF_vars(jobStarts(n)) /\ WF_vars(jobEnds(n))
    /\ \A r \in Runs : WF_vars(engineDispatchTaskJob(r))

\* the jobs of run r that the orchestrator holds
jobsOfRun(r) == {n \in JobNames : present(n) /\ runOf(n) = r}

\* C10: after a cancel request for a run has been handled, the engine job
\* and every task job labeled with that run id are deleted: eventually no
\* job of that run remains in the orchestrator.
C10_CancelDeletesJobs ==
    \A r \in Runs : (r \in cancelled /\ jobsOfRun(r) # {}) ~> (jobsOfRun(r) = {})

\* the request was authorized: it carried a token and arborist replied
\* auth = true
authorized(resp) == resp.token # "" /\ resp.reply = "authTrue"

\* C11: for every route, the handler runs, and POST /runs creates an engine
\* job, only if the request carried a non-empty Authorization header and
\* arborist replied auth = true; every other request is answered 403 and
\* changes neither the jobs nor the cancelled runs.
C11_HandlerOnlyIfAuthorized ==
    [][/\ response'.code # 0 =>
             IF authorized(response') THEN response'.code # 403
                                      ELSE response'.code = 403
       /\ (response' # response /\ response'.code = 403) =>
             (jobs' = jobs /\ cancelled' = cancelled)
       /\ \A r \in Runs :
             (jobs[engineJobOf(r)].phase = "none" /\ present(engineJobOf(r))') =>
                (authorized(response') /\ response'.handler = "handleRunsPOST")
       /\ cancelled' # cancelled =>
             (authorized(response') /\ response'.handler = "handleCancelRunPOST")
      ]_vars

\* C11 witness: a request with a token that arborist's unreadable reply did
\* not authorize was answered 403 while a run exists
C11_Witness ==
    /\ response.code = 403
    /\ response.token # ""
    /\ response.reply = "readError"
    /\ response.handler = "handleCancelRunPOST"
    /\ \E r \in Runs : present(engineJobOf(r))

\* the status jobStatusByID reports for job n
statusOf(n) == jobStatusToString(jobs[n].status)

\* C12: the reaper deletes only jobs reported completed: a job that leaves
\* the orchestrator had status completed when it was considered, and a
\* failed job is still there after every step of the reaper.
C12_ReaperDeletesOnlyCompleted ==
    [][\A n \in JobNames :
          /\ (present(n) /\ ~present(n)') => statusOf(n) = "completed"
          /\ (present(n) /\ statusOf(n) = "failed") => present(n)'
      ]_vars

\* C12 witness: the reaper has gone past a failed job in a pass in which it
\* has deleted a completed one
C12_Witness ==
    /\ reaper.pc = "delete"
    /\ reaper.i > Len(reaper.list)
    /\ \E n \in JobNames :
          /\ present(n) /\ statusOf(n) = "failed"
          /\ \E k \in DOMAIN reaper.list : reaper.list[k] = n
    /\ \E n \in JobNames :
          /\ jobs[n].phase = "deleted"
          /\ \E k \in DOMAIN reaper.list : reaper.list[k] = n

\* job n is in the orchestrator with status completed
completedJob(n) == present(n) /\ statusOf(n) = "completed"

\* deleteJobs reads the status of completed job n and so calls Delete for it
statusRead(n) ==
    /\ reaper.pc = "delete"
    /\ reaper.i <= Len(reaper.list)
    /\ reaper.list[reaper.i] = n
    /\ completedJob(n)
    /\ deleteCompletedJobs
    /\ (~present(n)' \/ reaper'.err = n)

\* the reaper of FairServerSpec, whose status calls eventually succeed:
\* whenever it keeps coming back to a completed job, it reads its status
FairReaperSpec ==
    /\ FairServerSpec
    /\ \A n \in JobNames : SF_vars(statusRead(n))

\* the jobs that listMarinerJobs lists before job n
listedBefore(n) ==
    {m \in JobNames :
        \/ appOf(m) = "mariner-task" /\ appOf(n) = "mariner-engine"
        \/ appOf(m) = appOf(n) /\ indexOf(ListOrder, m) < indexOf(ListOrder, n)}

resolved == engine \in {"running", "finished"}

\* the tasks of the tree resolveGraph builds (scatter subtasks are not part
\* of it)
TreeTasks == {t \in DOMAIN tasks : tasks[t].ScatterIndex = 0}

\* C14: after resolveGraph, every task whose process is a Workflow has
\* exactly one child per step, keyed by the step id, whose Root is the
\* process with the id of the step's `run` and whose originalStep is that
\* step; every other task has no children.
C14_OneChildPerStep ==
    resolved =>
        \A t \in TreeTasks :
            IF isWorkflow(t)
            THEN /\ Children(t) = {Child(t, Root(t).Steps[i].ID) : i \in DOMAIN Root(t).Steps}
                 /\ Cardinality(Children(t)) = Len(Root(t).Steps)
                 /\ \A i \in DOMAIN Root(t).Steps :
                       LET step == Root(t).Steps[i]
                           c == Child(t, step.ID)
                       IN  /\ c \in DOMAIN tasks
                           /\ tasks[c].originalStep = step
                           /\ tasks[c].Root = step.Run
                           /\ Root(c).ID = step.Run
            ELSE Children(t) = {}

\* C14 witness: a resolved tree with a sub-workflow: a task two steps below
\* the root
C14_Witness ==
    /\ resolved
    /\ \E t \in TreeTasks : Len(t) = 2 /\ isWorkflow(parentOf(t))

\* resolveGraph has returned and mainTask.GoRun() has not been entered
justResolved == engine = "running" /\ pc[mainPath] = "GoRun"

\* C15: the resolver propagates no value: after resolveGraph the root
\* task's Parameters is the one RunWorkflow built from the inputs, every
\* child task's Parameters is empty, and no task has an Outputs or a
\* Scatter entry.
C15_ResolverPropagatesNothing ==
    justResolved =>
        /\ DOMAIN Parameters[mainPath]
              = {"#main/" \o id : id \in DOMAIN originalParams(input)}
        /\ \A id \in DOMAIN originalParams(input) :
              Parameters[mainPath]["#main/" \o id] = originalParams(input)[id]
        /\ \A t \in DOMAIN tasks :
              /\ t # mainPath => Parameters[t] = EmptyMap
              /\ Outputs[t] = EmptyMap
              /\ Scatter[t] = <<>>

\* C15 witness: the tree of a workflow with a sub-workflow has just been
\* resolved
C15_Witness ==
    /\ justResolved
    /\ \E t \in DOMAIN tasks : Len(t) = 2

\* the packed document has no #main process, or a step of one of its
\* workflows runs a process that is not in $graph
resolveError ==
    LET rootMap == flatRoots(Graphs(docId))
    IN  \/ "#main" \notin DOMAIN rootMap
        \/ \E id \in DOMAIN rootMap :
              \E i \in DOMAIN rootMap[id].Steps :
                 rootMap[id].Steps[i].Run \notin DOMAIN rootMap

C17_MultiSourceOutputIsFatal ==
    \A t \in WorkflowTasks :
        \A o \in DeclaredOutputs(t) :
            Len(o.Source) # 1 =>
                /\ o.ID \notin DOMAIN Outputs[t]
                /\ ~returned(t)
                /\ engine # "finished"

\* C17 witness: the gather has merged the output declared before the one
\* with two sources and has then ended the run
C17_Witness ==
    /\ engine = "panicked"
    /\ docId = "multiout"
    /\ "#main/first" \in DOMAIN Outputs[mainPath]

\* C18: a step `in` entry with more than one source is a resolve error:
\* the scheduler does not bind that input and does not run the step's task.
C18_MultiSourceInputNotRun ==
    \A t \in StepTasks :
        \A i \in DOMAIN tasks[t].originalStep.In :
            Len(tasks[t].originalStep.In[i].Source) > 1 =>
                /\ step2taskID(tasks[t].originalStep, tasks[t].originalStep.In[i].ID)
                      \notin DOMAIN Parameters[t]
                /\ ~entered(t)

\* every `in` entry of the step of t has an entry in the Parameters of t
allInputsBound(t) ==
    \A i \in DOMAIN tasks[t].originalStep.In :
        step2taskID(tasks[t].originalStep, tasks[t].originalStep.In[i].ID)
            \in DOMAIN Parameters[t]

\* C19: task parameters are single-writer and stable before being read:
\* each key is written once, only by the activity running runStep for the
\* task, and the step activities of the task's children, which read its
\* Parameters, run only after all of the task's `in` entries have been bound.
C19_ParametersStableBeforeRead ==
    [][\A t \in DOMAIN Parameters :
          /\ t \in DOMAIN Parameters'
          /\ \A k \in DOMAIN Parameters[t] :
                k \in DOMAIN Parameters'[t] /\ Parameters'[t][k] = Parameters[t][k]
          /\ Parameters'[t] # Parameters[t] => pc[t] = "runStep"
          /\ (t # mainPath /\ \E c \in Children(t) : pc'[c] # "notStarted")
                => allInputsBound(t)'
      ]_vars

(***************************************************************************)
(* Scatter and gather.                                                     *)
(***************************************************************************)
\* the scattered tasks whose gather has ended with a result
GatheredTasks ==
    {t \in DOMAIN tasks : Scatter[t] # <<>> /\ returned(t) /\ job[t] # "failed"}

\* C20: for a step scattered over N elements, the gathered array of every
\* output has length N and its element i is the output of scatter subtask
\* i, the subtask created for element i, in whatever order the subtasks
\* have completed.
C20_GatherInCreationOrder ==
    \A t \in GatheredTasks :
        LET n == scatterLength(Parameters[t], Scatter[t])
        IN  \A j \in DOMAIN Root(t).Outputs :
                LET outputID == Root(t).Outputs[j].ID
                IN  /\ outputID \in DOMAIN Outputs[t]
                    /\ isArr(Outputs[t][outputID])
                    /\ Len(Outputs[t][outputID].v) = n
                    /\ \A i \in 1..n :
                          LET sub == ScatterTask(t, i)
                          IN  /\ tasks[sub].ScatterIndex = i
                              /\ Parameters[sub] = scatterParams(Parameters[t], Scatter[t], i)
                              /\ Outputs[t][outputID].v[i] = Outputs[sub][outputID]
                              /\ Outputs[t][outputID].v[i]
                                    = ToolOutput(Root(t), Parameters[sub], j)

\* C20 witness: a scatter over at least two elements has been gathered
C20_Witness ==
    \E t \in GatheredTasks :
        /\ scatterLength(Parameters[t], Scatter[t]) >= 2
        /\ \A c \in ScatterTasks(t) : returned(c)

(***************************************************************************)
(* The metrics sampler of one leaf task: collectResourceMetrics            *)
(* (server.go 464-503) and the older collectResourceUsage (jobs.go         *)
(* 56-147).  One step of the model is one stretch of the goroutine between *)
(* two points where the engine may set the task's Done flag.               *)
(***************************************************************************)
\* the sampler begins at most MaxSamples sampling periods
MaxSamples == 3
\* a container uses 0..MaxUsage millicpu and 0..MaxUsage MB
MaxUsage == 1

ResourceUsageSamplePoint(cpu, mem) == [CPU |-> cpu, Memory |-> mem]

\* what podsClient.List returns: an error (with an empty list), or the pods
\* labelled job-name=<task job>
PodLists == {[err |-> TRUE, items |-> 0]} \cup [err : {FALSE}, items : 0..2]

\* what the metrics API returns for the task pod: a failed list
\* ("metricsByPod"), a list without the pod ("noPod"), the pod without the
\* task container ("containerMetrics"), or the container's usage; int64
\* tells whether the usage quantities are whole numbers
MetricsReplies ==
    [err : {"metricsByPod", "noPod", "containerMetrics"}, cpu : {0}, mem : {0},
     int64 : {TRUE}]
    \cup [err : {""}, cpu : 0..MaxUsage, mem : 0..MaxUsage, int64 : BOOLEAN]

\* containerResourceUsage: (0, 0) when the metrics cannot be listed or the
\* container is not in the list (containerMetrics finds no pod or no
\* container of that name)
containerResourceUsage(reply) ==
    IF reply.err # "" THEN <<0, 0>> ELSE <<reply.cpu, reply.mem>>

resourceUsageAnyPods(pods, reply) == containerResourceUsage(reply)

\* Tool.resourceUsage: the named results cpu, mem stay 0 unless exactly one
\* pod is listed
resourceUsage(pods, reply) ==
    IF pods.err THEN <<0, 0>>
    ELSE IF pods.items = 1 THEN containerResourceUsage(reply)
    ELSE <<0, 0>>

loopForever(done) == TRUE

\* the loop condition of both samplers: for !*tool.Task.Done
loopCondition(done) == ~done

\* the engine marks the task done
taskDone ==
    /\ ~Done
    /\ Done' = TRUE
    /\ UNCHANGED <<Series, sampler>>
    /\ UNCHANGED besideSampler

\* collectResourceMetrics up to its loop: k8sClient panics outside a
\* cluster, ResourceUsage.init() starts the series
collectResourceMetrics ==
    /\ sampler.pc = "idle"
    /\ \E inCluster \in BOOLEAN :
          IF inCluster
          THEN /\ Series' = <<>>
               /\ sampler' = [sampler EXCEPT !.path = "collectResourceMetrics",
                                             !.pc = "test"]
          ELSE /\ sampler' = [sampler EXCEPT !.path = "collectResourceMetrics",
                                             !.pc = "panicked"]
               /\ UNCHANGED Series
    /\ UNCHANGED Done
    /\ UNCHANGED besideSampler

\* collectResourceUsage up to its loop: cpuStats and memStats are copies of
\* the slices in the task log
collectResourceUsage ==
    /\ sampler.pc = "idle"
    /\ \E inCluster \in BOOLEAN :
          sampler' = [sampler EXCEPT !.path = "collectResourceUsage",
                                     !.pc = IF inCluster THEN "test"
                                            ELSE "panicked"]
    /\ UNCHANGED <<Done, Series>>
    /\ UNCHANGED besideSampler

\* the test of the loop condition, and the return when the task is done
testDone ==
    /\ sampler.pc = "test"
    /\ IF loopCondition(Done)
       THEN /\ sampler.period < MaxSamples
            /\ sampler' = [sampler EXCEPT !.pc = "sample",
                                          !.period = sampler.period + 1]
       ELSE sampler' = [sampler EXCEPT !.pc = "exited"]
    /\ UNCHANGED <<Done, Series>>
    /\ UNCHANGED besideSampler

\* one sample of collectResourceMetrics: sampleResourceUsage appends the
\* point to the series, then the log is written
sampleResourceUsage ==
    /\ sampler.path = "collectResourceMetrics"
    /\ sampler.pc = "sample"
    /\ \E pods \in PodLists, reply \in MetricsReplies :
          LET u == resourceUsage(pods, reply)
          IN  /\ Series' = Append(Series, ResourceUsageSamplePoint(u[1], u[2]))
              /\ sampler' = [sampler EXCEPT
                    !.pc = "sleep", !.pods = pods,
                    !.metrics = IF ~pods.err /\ pods.items = 1
                                THEN reply.err ELSE ""]
    /\ UNCHANGED Done
    /\ UNCHANGED besideSampler

\* one pass of the loop body of collectResourceUsage: the list error is only
\* printed; with one pod a failed metrics list, an empty metrics list and a
\* quantity that is no int64 panic; the usage is appended to the local
\* slices cpuStats and memStats
collectResourceUsageBody ==
    /\ sampler.path = "collectResourceUsage"
    /\ sampler.pc = "sample"
    /\ \E pods \in PodLists, reply \in MetricsReplies :
          IF pods.items # 1
          THEN sampler' = [sampler EXCEPT !.pc = "sleep", !.pods = pods,
                                          !.metrics = ""]
          ELSE IF reply.err \in {"metricsByPod", "noPod"} \/ ~reply.int64
          THEN sampler' = [sampler EXCEPT !.pc = "panicked", !.pods = pods,
                                          !.metrics = reply.err]
          ELSE sampler' = [sampler EXCEPT
                    !.pc = "sleep", !.pods = pods, !.metrics = reply.err,
                    !.stats = Append(sampler.stats,
                                ResourceUsageSamplePoint(reply.cpu, reply.mem))]
    /\ UNCHANGED <<Done, Series>>
    /\ UNCHANGED besideSampler

\* time.Sleep returns
samplerSleep ==
    /\ sampler.pc = "sleep"
    /\ sampler' = [sampler EXCEPT !.pc = "test"]
    /\ UNCHANGED <<Done, Series>>
    /\ UNCHANGED besideSampler

SamplerNext ==
    \/ taskDone
    \/ collectResourceMetrics
    \/ collectResourceUsage
    \/ testDone
    \/ sampleResourceUsage
    \/ collectResourceUsageBody
    \/ samplerSleep

SamplerSpec == ServerInit /\ [][SamplerNext]_vars

\* the sampler goroutine is scheduled, and the calls it makes return
FairSamplerSpec ==
    /\ SamplerSpec
    /\ WF_vars(testDone)
    /\ WF_vars(sampleResourceUsage)
    /\ WF_vars(collectResourceUsageBody)
    /\ WF_vars(samplerSleep)

\* the sampler of server.go is past the sample of the period it began
sampled ==
    /\ sampler.path = "collectResourceMetrics"
    /\ sampler.pc \in {"sleep", "test", "exited"}

\* C21: in collectResourceMetrics every iteration entered with Done false
\* appends exactly one sample (the series has one point per period begun,
\* the point of the running period being appended by its sample step), the
\* point is (0, 0) when the pod list has zero or more than one pod, and the
\* series only ever grows by one point at its end
C21_OneSamplePerPeriod ==
    /\ [](sampler.path = "collectResourceMetrics" /\ sampler.pc = "sample"
             => Len(Series) = sampler.period - 1)
    /\ [](sampled => Len(Series) = sampler.period)
    /\ [](sampled /\ sampler.period > 0 /\ ~sampler.pods.err
                  /\ sampler.pods.items # 1
             => Series[Len(Series)] = ResourceUsageSamplePoint(0, 0))
    /\ [][\/ Series' = Series
          \/ /\ sampler.pc = "sample"
             /\ \E p \in [CPU : 0..MaxUsage, Memory : 0..MaxUsage] :
                   Series' = Append(Series, p)]_vars

C21_Witness ==
    /\ sampled
    /\ ~Done
    /\ sampler.period = 2
    /\ sampler.pods = [err |-> FALSE, items |-> 2]
    /\ Series[1] # ResourceUsageSamplePoint(0, 0)

\* the sampler goroutine has ended: the loop returned, or a panic ended the
\* process
terminated == sampler.pc \in {"exited", "panicked"}

\* C22: once the task's Done flag is true (the engine never resets it) a
\* running sampler eventually terminates, and from then on a sample is
\* appended only by the iteration that was already past its test of Done:
\* no step taken at the test, in the sleep or after the exit appends one
C22_SamplerExitsWhenDone ==
    /\ (Done /\ sampler.pc # "idle") ~> terminated
    /\ [][Done /\ sampler.pc # "sample"
             => Series' = Series /\ sampler'.stats = sampler.stats]_vars

C22_Witness ==
    /\ Done
    /\ sampler.path = "collectResourceMetrics"
    /\ sampler.pc = "exited"
    /\ Len(Series) = 2

\* the sample step just taken met a metrics error: the pod list failed, the
\* metrics could not be listed, or the reply lacks the task container
metricsError(s) ==
    \/ s.pods.err
    \/ s.metrics \in {"metricsByPod", "noPod", "containerMetrics"}

\* C23: a sample step that meets a metrics error does not end the sampler
\* or the process: it records the point (0, 0) in the task's series and
\* goes on to the sleep before the next period
C23_MetricsErrorsNonFatal ==
    [][sampler.pc = "sample" /\ sampler'.pc # "sample" /\ metricsError(sampler')
          => /\ sampler'.pc = "sleep"
             /\ Series' = Append(Series, ResourceUsageSamplePoint(0, 0))]_vars

(***************************************************************************)
(* The status derived for a job under any stream of status updates of the  *)
(* orchestrator (jobStatusByID, jobStatusToString).                        *)
(***************************************************************************)
\* the counters of a JobStatus range over 0..MaxCount
MaxCount == 2

\* the JobStatus values the orchestrator may report
JobStatuses ==
    [Succeeded : 0..MaxCount, Failed : 0..MaxCount, Active : 0..MaxCount]

\* the orchestrator updates the status of a job; the counters of succeeded
\* and of failed pods never decrease
statusUpdate(n) ==
    /\ present(n)
    /\ \E status \in JobStatuses :
          /\ status # jobs[n].status
          /\ status.Succeeded >= jobs[n].status.Succeeded
          /\ status.Failed >= jobs[n].status.Failed
          /\ jobs' = [jobs EXCEPT ![n].status = status]
    /\ UNCHANGED <<reaper, cancelled, response>>
    /\ UNCHANGED besideServer

StatusNext ==
    \/ \E r \in Runs : handleRunsPOST(r)
    \/ \E r \in Runs : engineDispatchTaskJob(r)
    \/ \E n \in JobNames : statusUpdate(n)

StatusSpec == ServerInit /\ [][StatusNext]_vars

\* C24: once the status derived for a job is completed or failed, no later
\* status update changes the derived status
C24_TerminalStatusIsTerminal ==
    [][\A n \in JobNames :
          (present(n) /\ statusOf(n) \in {"completed", "failed"})
             => statusOf(n)' = statusOf(n)]_vars

\* C25: every response of the server has the header
\* Content-Type: application/json, whether it is a success, the 403 of the
\* auth middleware or the 400 of a failed dispatch
C25_EveryResponseIsJSON ==
    response.code # 0 => response.header = "application/json"

\* the JSON of RunLogJSON, StatusJSON and ListRunsJSON for a fetched record
RunLogJSON(fetched) ==
    "{\"log\":{\"main\":{\"status\":" \o jsonString(fetched.status) \o "}}}"
StatusJSON(fetched) == "{\"status\":" \o jsonString(fetched.status) \o "}"
ListRunsJSON(fetched) == "{\"runIDs\":" \o jsonStrings(fetched.runIDs) \o "}"

\* C26: for an authorized caller the body of GET /runs/{runID} is the
\* fetched main log as {log: ...}, that of GET /runs/{runID}/status is
\* {status: ...} with the status of the fetched log, and that of GET /runs
\* is {runIDs: ...} with the run ids listRuns returned
C26_GETBodyIsFetchedRecord ==
    (authorized(response) /\ response.fetched.kind \in {"log", "runs"}) =>
        response.body =
            (CASE response.handler = "handleRunLogGET" ->
                     RunLogJSON(response.fetched)
               [] response.handler = "handleRunStatusGET" ->
                     StatusJSON(response.fetched)
               [] response.handler = "handleRunsGET" ->
                     ListRunsJSON(response.fetched)) \o "\n"

(***************************************************************************)
(* The packer (src/wftool): file paths, the recursion of nuConvert and     *)
(* PackCWLFile over `run` fields, and packCWLFile of pack.go.              *)
(***************************************************************************)
\* the packer is cut off when MaxDepth files are being packed at once
MaxDepth == 3

\* a path is the sequence of its names; an absolute path starts with "/",
\* the empty sequence is the empty path, which names the current directory
isAbs(path) == path # <<>> /\ path[1] = "/"

RECURSIVE Clean(_, _)
\* the directory reached from dir along the names of path; ".." goes up
Clean(dir, path) ==
    IF path = <<>> THEN dir
    ELSE IF Head(path) = ".."
    THEN Clean(IF Len(dir) > 1 THEN SubSeq(dir, 1, Len(dir) - 1) ELSE dir,
               Tail(path))
    ELSE Clean(Append(dir, Head(path)), Tail(path))

\* path as seen from the directory dir
Join(dir, path) == IF isAbs(path) THEN Clean(<<>>, path) ELSE Clean(dir, path)

\* filepath.Dir and filepath.Base
Dir(path) ==
    IF Len(path) <= 1 THEN (IF isAbs(path) THEN path ELSE <<>>)
    ELSE SubSeq(path, 1, Len(path) - 1)
Base(path) == IF path = <<>> THEN "." ELSE path[Len(path)]

\* the CWL files on disk, each with the file references of its `run` fields
Files ==
    (<<"/", "w", "main.cwl">> :>
        [run |-> << <<"tools", "a.cwl">>, <<"tools", "b.cwl">> >>]) @@
    (<<"/", "w", "tools", "a.cwl">> :> [run |-> <<>>]) @@
    (<<"/", "w", "tools", "b.cwl">> :> [run |-> << <<"a.cwl">> >>]) @@
    (<<"/", "w", "broken.cwl">> :>
        [run |-> << <<"tools", "a.cwl">>, <<"tools", "gone.cwl">> >>]) @@
    (<<"/", "w", "loop.cwl">> :> [run |-> << <<"tools", "back.cwl">> >>]) @@
    (<<"/", "w", "tools", "back.cwl">> :> [run |-> << <<"..", "loop.cwl">> >>])

\* the directories on disk
Dirs == {StartDir, <<"/">>} \cup {Dir(file) : file \in DOMAIN Files}

\* the top-level files the packer is run on
Entries == {<<"/", "w", "main.cwl">>, <<"/", "w", "broken.cwl">>,
            <<"/", "w", "loop.cwl">>}

\* the file that path names for the file prevPath that refers to it
absPath(path, prevPath) == Join(Dir(prevPath), path)

\* ioutil.ReadFile may succeed only on a file that is there
readable(file) == IF file \in DOMAIN Files THEN BOOLEAN ELSE {FALSE}

\* the id PackCWLFile gives the process of a file, which is also what
\* nuConvert writes for a `run` field: "#" and the base name
processID(path) == "#" \o Base(path)

frame(file) == [path |-> file, next |-> 1, run |-> <<>>]

\* the `run` field that the innermost call is converting
runField == Files[packStack[Len(packStack)].path].run[packStack[Len(packStack)].next]

\* nuConvert has written the value of the `run` field it is converting
runConverted(stack) ==
    LET top == stack[Len(stack)]
    IN  [stack EXCEPT ![Len(stack)] =
            [path |-> top.path, next |-> top.next + 1,
             run |-> Append(top.run,
                            processID(Files[top.path].run[top.next]))]]

\* the packer is run on a top-level file: PackCWLFile(entry, "")
PackEntry ==
    /\ packing = "idle"
    /\ \E entry \in Entries, ok \in BOOLEAN :
          IF ok
          THEN /\ packStack' = <<frame(entry)>>
               /\ packing' = "packing"
          ELSE /\ packing' = "error"
               /\ UNCHANGED packStack
    /\ UNCHANGED <<Graph, cwd, calls>>
    /\ UNCHANGED besidePacker

\* nuConvert meets a `run` field x in the file being packed: it calls
\* PackCWLFile(x, path, graph, versionCheck), which reads the file that x
\* names relative to the directory of path and converts it; when that
\* fails the error is printed and nuConvert returns the id all the same
nuConvertRun ==
    /\ packing = "packing"
    /\ LET top == packStack[Len(packStack)]
       IN  /\ top.next <= Len(Files[top.path].run)
           /\ \E ok \in readable(absPath(runField, top.path)) :
                 IF ok
                 THEN /\ Len(packStack) < MaxDepth
                      /\ packStack' = Append(packStack,
                                         frame(absPath(runField, top.path)))
                      /\ UNCHANGED packing
                 ELSE /\ packStack' = runConverted(packStack)
                      /\ UNCHANGED packing
    /\ UNCHANGED <<Graph, cwd, calls>>
    /\ UNCHANGED besidePacker

\* PackCWL has converted the whole file: its process goes into the graph
\* and PackCWLFile returns nil to the nuConvert that called it
PackCWLFileReturn ==
    /\ packing = "packing"
    /\ LET top == packStack[Len(packStack)]
           rest == SubSeq(packStack, 1, Len(packStack) - 1)
       IN  /\ top.next > Len(Files[top.path].run)
           /\ Graph' = Append(Graph, [id |-> processID(top.path), run |-> top.run])
           /\ IF rest = <<>>
              THEN /\ packStack' = <<>>
                   /\ packing' = "done"
              ELSE /\ packStack' = runConverted(rest)
                   /\ UNCHANGED packing
    /\ UNCHANGED <<cwd, calls>>
    /\ UNCHANGED besidePacker

\* the arguments of the packCWLFile calls: a top-level file with an empty
\* prevPath, or a `run` reference with the file that holds it
PackArgs ==
    {<<entry, <<>> >> : entry \in Entries}
    \cup UNION {{<<Files[file].run[i], file>> : i \in DOMAIN Files[file].run} :
                   file \in DOMAIN Files}

\* os.Chdir(dir): the new working directory, or <<>> when there is no such
\* directory
Chdir(dir) == IF Join(cwd, dir) \in Dirs THEN Join(cwd, dir) ELSE <<>>

\* a call packCWLFile(path, prevPath) begins
packCWLFile(c) ==
    /\ calls[c].pc = "idle"
    /\ \E args \in PackArgs :
          calls' = [calls EXCEPT ![c] = [NoCall EXCEPT !.pc = "chdirPrev",
                                                       !.path = args[1],
                                                       !.prevPath = args[2]]]
    /\ UNCHANGED <<packing, packStack, Graph, cwd>>
    /\ UNCHANGED besidePacker

\* os.Chdir(filepath.Dir(prevPath))
chdirPrev(c) ==
    /\ calls[c].pc = "chdirPrev"
    /\ IF Chdir(Dir(calls[c].prevPath)) # <<>>
       THEN /\ cwd' = Chdir(Dir(calls[c].prevPath))
            /\ calls' = [calls EXCEPT ![c].pc = "chdirPath"]
       ELSE /\ calls' = [calls EXCEPT ![c].pc = "returned", ![c].err = "chdir"]
            /\ UNCHANGED cwd
    /\ UNCHANGED <<packing, packStack, Graph>>
    /\ UNCHANGED besidePacker

\* os.Chdir(filepath.Dir(path))
chdirPath(c) ==
    /\ calls[c].pc = "chdirPath"
    /\ IF Chdir(Dir(calls[c].path)) # <<>>
       THEN /\ cwd' = Chdir(Dir(calls[c].path))
            /\ calls' = [calls EXCEPT ![c].pc = "getwd"]
       ELSE /\ calls' = [calls EXCEPT ![c].pc = "returned", ![c].err = "chdir"]
            /\ UNCHANGED cwd
    /\ UNCHANGED <<packing, packStack, Graph>>
    /\ UNCHANGED besidePacker

\* absPath, err := os.Getwd()
getwd(c) ==
    /\ calls[c].pc = "getwd"
    /\ calls' = [calls EXCEPT ![c].pc = "read", ![c].absPath = cwd]
    /\ UNCHANGED <<packing, packStack, Graph, cwd>>
    /\ UNCHANGED besidePacker

\* ioutil.ReadFile(absPath), then PackCWL prints the converted file; the
\* read fails when absPath is not a file
readFile(c) ==
    /\ calls[c].pc = "read"
    /\ \E ok \in readable(calls[c].absPath) :
          calls' = [calls EXCEPT ![c].pc = "returned",
                                 ![c].err = IF ok THEN "" ELSE "read"]
    /\ UNCHANGED <<packing, packStack, Graph, cwd>>
    /\ UNCHANGED besidePacker

PackNext ==
    \/ PackEntry
    \/ nuConvertRun
    \/ PackCWLFileReturn
    \/ \E c \in Callers : packCWLFile(c)
    \/ \E c \in Callers : chdirPrev(c)
    \/ \E c \in Callers : chdirPath(c)
    \/ \E c \in Callers : getwd(c)
    \/ \E c \in Callers : readFile(c)

PackSpec == ServerInit /\ [][PackNext]_vars

\* the ids of the processes in the graph
graphIDs == {Graph[i].id : i \in DOMAIN Graph}

\* C27: in a document the packer has produced, every `run` value is the id
\* of a process in $graph
C27_RunResolvesInGraph ==
    packing = "done" =>
        \A i \in DOMAIN Graph : \A j \in DOMAIN Graph[i].run :
            Graph[i].run[j] \in graphIDs

resolvedCall(c) ==
    \/ calls[c].pc = "read"
    \/ calls[c].pc = "returned" /\ calls[c].err # "chdir"

\* C29: the file a packCWLFile call reads is path resolved relative to the
\* directory of prevPath, whatever the other calls do, and the working
\* directory of the process is the one it started in
C29_PathResolutionIsPure ==
    /\ cwd = StartDir
    /\ \A c \in Callers :
          resolvedCall(c) =>
             calls[c].absPath = absPath(calls[c].path, calls[c].prevPath)

(***************************************************************************)
(* The conversion of `type` values (resolveType, nuConvert of schema.go).  *)
(***************************************************************************)
\* a type string has at most MaxSuffixes shorthand suffixes
MaxSuffixes == 3

\* strings.HasSuffix and strings.TrimSuffix
HasSuffix(s, suffix) ==
    Len(s) >= Len(suffix) /\ SubSeq(s, Len(s) - Len(suffix) + 1, Len(s)) = suffix
TrimSuffix(s, suffix) ==
    IF HasSuffix(s, suffix) THEN SubSeq(s, 1, Len(s) - Len(suffix)) ELSE s

RECURSIVE Shorthands(_)
\* the type strings: a type name followed by up to n suffixes [] and ?
Shorthands(n) ==
    IF n = 0 THEN {"int", "string", "File"}
    ELSE Shorthands(n - 1) \cup {s \o "[]" : s \in Shorthands(n - 1)}
                           \cup {s \o "?" : s \in Shorthands(n - 1)}

\* resolveType: the Go values map[string]string{type, items}, []string{T,
\* "null"}, or s itself
resolveType(s) ==
    IF HasSuffix(s, "[]")
    THEN [k |-> "map[string]string",
          v |-> [type |-> "array", items |-> TrimSuffix(s, "[]")]]
    ELSE IF HasSuffix(s, "?")
    THEN [k |-> "[]string", v |-> <<TrimSuffix(s, "?"), "null">>]
    ELSE Str(s)

\* a YAML mapping (map[interface{}]interface{}), the maps nuConvert and
\* array build (map[string]interface{}, []map[string]interface{}), and an
\* error
Map(f) == [k |-> "map", v |-> f]
GoMap(f) == [k |-> "map[string]interface{}", v |-> f]
GoMaps(seq) == [k |-> "[]map[string]interface{}", v |-> seq]
Err(msg) == [k |-> "error", v |-> msg]

RECURSIVE reread(_)
\* the packed document is printed as JSON (printJSON) and read again
\* (yaml.Unmarshal): maps come back as map[interface{}]interface{}, lists
\* as []interface{}
reread(value) ==
    IF value.k = "map[string]string"
    THEN Map([key \in DOMAIN value.v |-> Str(value.v[key])])
    ELSE IF value.k = "[]string"
    THEN Arr([n \in DOMAIN value.v |-> Str(value.v[n])])
    ELSE IF value.k \in {"map", "map[string]interface{}"}
    THEN Map([key \in DOMAIN value.v |-> reread(value.v[key])])
    ELSE IF value.k \in {"array", "[]map[string]interface{}"}
    THEN Arr([n \in DOMAIN value.v |-> reread(value.v[n])])
    ELSE value

\* the fields that are turned from a map into an array
mapToArray == {"inputs", "steps", "in", "outputs", "requirements", "hints"}

primaryRoutine == "primaryRoutine"

RECURSIVE slashAt(_, _)
\* the position of the first "/" of s from position n on, Len(s) + 1 if none
slashAt(s, n) ==
    IF n > Len(s) THEN n
    ELSE IF SubSeq(s, n, n) = "/" THEN n
    ELSE slashAt(s, n + 1)

\* strings.Split(s, "/")[0]
splitFirst(s) == SubSeq(s, 1, slashAt(s, 1) - 1)

RECURSIVE baseName(_)
\* filepath.Base of a path written as a string
baseName(s) ==
    IF slashAt(s, 1) > Len(s) THEN s
    ELSE baseName(SubSeq(s, slashAt(s, 1) + 1, Len(s)))

\* the first error among the values of a sequence, or Nil
firstError(seq) ==
    IF \E n \in DOMAIN seq : seq[n].k = "error"
    THEN seq[CHOOSE n \in DOMAIN seq :
                /\ seq[n].k = "error"
                /\ \A l \in DOMAIN seq : seq[l].k = "error" => n <= l]
    ELSE Nil

\* m[key] = value on a Go map
Set(f, key, value) ==
    [x \in DOMAIN f \cup {key} |-> IF x = key THEN value ELSE f[x]]

RECURSIVE nuConvert(_, _, _, _, _)
RECURSIVE array(_, _, _, _)

\* array: one object per entry of the map m, visited in the order the Go
\* runtime yields the keys (order); the entry is converted under its own
\* key k and the id parentID/k
array(m, parentKey, parentID, order) ==
    LET keys == SelectSeq(order, LAMBDA key : key \in DOMAIN m.v)
        entry(key) ==
            LET id == parentID \o "/" \o key
                i == nuConvert(m.v[key], key, id, FALSE, order)
                tagged(nuV) ==
                    IF parentKey \in {"requirements", "hints"}
                    THEN GoMap(Set(nuV, "class", Str(key)))
                    ELSE GoMap(Set(nuV, "id", Str(id)))
            IN  IF i.k = "error" THEN i
                ELSE IF i.k = "map[string]interface{}" THEN tagged(i.v)
                ELSE IF i.k = "string"
                THEN IF parentKey \in {"inputs", "outputs"}
                     THEN tagged("type" :> resolveType(i.v))
                     ELSE IF parentKey = "in"
                     THEN tagged("source" :>
                                 Str(splitFirst(parentID) \o "/" \o i.v))
                     ELSE Err("unexpected syntax for field: " \o parentKey)
                ELSE Err("unexpected syntax for field: " \o parentKey)
        arr == [n \in DOMAIN keys |-> entry(keys[n])]
    IN  IF firstError(arr) # Nil THEN firstError(arr) ELSE GoMaps(arr)

\* nuConvert on the value i under the key parentKey: a map under one of
\* the mapToArray keys goes to array, any other map is converted entry by
\* entry (and gets its id in the primary routine), a list element by
\* element under the key of the list, a string by the rule of its key;
\* every other value is returned as it is.  The side effects of the string
\* rules (versionCheck, the files PackCWLFile packs) are not part of the
\* value
nuConvert(i, parentKey, parentID, inArray, order) ==
    IF i.k = "map"
    THEN IF parentKey \in mapToArray /\ ~inArray
         THEN array(i, parentKey, parentID, order)
         ELSE LET m2 == [key \in DOMAIN i.v |->
                       nuConvert(i.v[key], key, parentID, FALSE, order)]
                  errors == {key \in DOMAIN i.v : m2[key].k = "error"}
              IN  IF errors # {} THEN m2[CHOOSE key \in errors : TRUE]
                  ELSE IF parentKey = primaryRoutine
                  THEN GoMap(Set(m2, "id", Str(parentID)))
                  ELSE GoMap(m2)
    ELSE IF i.k = "array"
    THEN LET x == [n \in DOMAIN i.v |->
                      nuConvert(i.v[n], parentKey, parentID, TRUE, order)]
         IN  IF firstError(x) # Nil THEN firstError(x) ELSE Arr(x)
    ELSE IF i.k = "string"
    THEN IF parentKey = "type" THEN resolveType(i.v)
         ELSE IF parentKey \in {"source", "outputSource"}
         THEN Str(splitFirst(parentID) \o "/" \o i.v)
         ELSE IF parentKey \in {"out", "id", "scatter"}
         THEN Str(parentID \o "/" \o i.v)
         ELSE IF parentKey = "run"
         THEN Str("#" \o baseName(i.v))
         ELSE i
    ELSE i

\* a `type` field with a type string is given to the packer
typeField ==
    /\ conv.pc = "idle"
    /\ \E s \in Shorthands(MaxSuffixes) :
          conv' = [NoConversion EXCEPT !.pc = "read", !.key = "type",
                                       !.id = "#main.cwl", !.i = Str(s)]
    /\ UNCHANGED besideConversion

\* the packer converts the field
convertType ==
    /\ conv.pc = "read"
    /\ conv' = [conv EXCEPT !.pc = "packed",
                  !.out = nuConvert(conv.i, conv.key, conv.id, FALSE, conv.order)]
    /\ UNCHANGED besideConversion

\* the packed field is converted once more
convertAgain ==
    /\ conv.pc = "packed"
    /\ conv.out.k # "error"
    /\ conv' = [conv EXCEPT !.pc = "repacked",
                  !.again = nuConvert(reread(conv.out), conv.key, conv.id,
                                      FALSE, conv.order)]
    /\ UNCHANGED besideConversion

TypeNext ==
    \/ typeField
    \/ convertType
    \/ convertAgain

TypeSpec == ServerInit /\ [][TypeNext]_vars

\* the type names in an expanded type
typeNames(value) ==
    IF value.k = "map[string]string" THEN {value.v.type, value.v.items}
    ELSE IF value.k = "[]string" THEN Range(value.v)
    ELSE {value.v}

\* C30: the expansion of a type string holds no type name that still ends
\* in [] or ?, and converting the expanded type again changes nothing
C30_ExpansionIsStable ==
    /\ conv.pc \in {"packed", "repacked"} =>
          \A name \in typeNames(conv.out) :
             ~HasSuffix(name, "[]") /\ ~HasSuffix(name, "?")
    /\ conv.pc = "repacked" => conv.again = reread(conv.out)

(***************************************************************************)
(* The conversion of map-form fields and of whole processes (array and     *)
(* nuConvert of schema.go).                                                *)
(***************************************************************************)
\* the local names of the entries of a map-form field, and the orders in
\* which the Go runtime may yield them
LocalKeys == {"x", "source"}
KeyOrders == {<<"x", "source">>, <<"source", "x">>}

\* an entry of a map-form field: a bare string, or an object
EntryValues == {Str("int"), Str("File[]"), Map("type" :> Str("int?"))}

\* the map-form fields given to the packer
FieldMaps == UNION {[keys -> EntryValues] : keys \in (SUBSET LocalKeys) \ {{}}}

\* a field written as a map is given to the packer; the parent of an `in`
\* field is a step, that of the other fields the process
mapField ==
    /\ conv.pc = "idle"
    /\ \E field \in mapToArray, m \in FieldMaps, order \in KeyOrders :
          conv' = [NoConversion EXCEPT
                     !.pc = "read", !.key = field, !.order = order,
                     !.id = IF field = "in" THEN "#main.cwl/step"
                            ELSE "#main.cwl",
                     !.i = Map(m)]
    /\ UNCHANGED besideConversion

\* the processes given to the packer: a tool with nothing but a class, and
\* tools with map-form inputs
Processes ==
    {"class" :> Str("CommandLineTool")} \cup
    {("class" :> Str("CommandLineTool")) @@ ("inputs" :> Map(m)) :
        m \in FieldMaps}

\* a whole process is given to the packer (PackCWL: the primary routine)
packProcess ==
    /\ conv.pc = "idle"
    /\ \E process \in Processes, order \in KeyOrders :
          conv' = [NoConversion EXCEPT
                     !.pc = "read", !.key = primaryRoutine, !.order = order,
                     !.id = "#main.cwl", !.i = Map(process)]
    /\ UNCHANGED besideConversion

ConvNext ==
    \/ mapField
    \/ packProcess
    \/ convertType
    \/ convertAgain

ConvSpec == ServerInit /\ [][ConvNext]_vars

\* the object the packer is to emit for the entry of key in the field
\* conv.key: its id or class, and the expansion of a bare string
emitted(key) ==
    LET value == conv.i.v[key]
        tag == IF conv.key \in {"requirements", "hints"}
               THEN "class" :> Str(key)
               ELSE "id" :> Str(conv.id \o "/" \o key)
    IN  IF value.k # "string" THEN tag
        ELSE IF conv.key \in {"inputs", "outputs"}
        THEN tag @@ ("type" :> resolveType(value.v))
        ELSE tag @@ ("source" :> Str(splitFirst(conv.id) \o "/" \o value.v))

\* C31: a map-form field becomes an array with one object per entry; the
\* object of key k has id parentID/k (class k under requirements and
\* hints); a bare string becomes {type: resolveType(s)} under inputs and
\* outputs and {source: root/s} under in, and is an error under steps,
\* requirements and hints
C31_MapFieldBecomesArray ==
    (conv.pc \in {"packed", "repacked"} /\ conv.key \in mapToArray
        /\ conv.i.k = "map") =>
       IF /\ conv.key \in {"steps", "requirements", "hints"}
          /\ \E key \in DOMAIN conv.i.v : conv.i.v[key].k = "string"
       THEN conv.out.k = "error"
       ELSE /\ conv.out.k = "[]map[string]interface{}"
            /\ Len(conv.out.v) = Cardinality(DOMAIN conv.i.v)
            /\ \A key \in DOMAIN conv.i.v :
                  \E n \in DOMAIN conv.out.v :
                     \A field \in DOMAIN emitted(key) :
                        /\ field \in DOMAIN conv.out.v[n].v
                        /\ conv.out.v[n].v[field] = emitted(key)[field]

\* C32: packing is idempotent: converting an already packed process once
\* more yields a structurally equal process, no identifier is prefixed a
\* second time
C32_PackingIsIdempotent ==
    (conv.pc = "repacked" /\ conv.key = primaryRoutine) =>
       reread(conv.again) = reread(conv.out)

(***************************************************************************)
(* The server's job bookkeeping: jobStatusToString, dispatchTaskJob and    *)
(* deleteJobs.                                                             *)
(***************************************************************************)
\* C33: for all non-negative counters the derived status is completed if
\* Succeeded >= 1, otherwise failed if Failed >= 1, otherwise running if
\* Active >= 1, otherwise unknown; a nil status is unknown; the status is
\* never queued or cancelled
C33_StatusByFixedPriority ==
    /\ jobStatusToString(NilStatus) = "unknown"
    /\ \A n \in JobNames :
          LET status == jobs[n].status
              string == jobStatusToString(status)
          IN  /\ status.Succeeded >= 1 => string = "completed"
              /\ (status.Succeeded = 0 /\ status.Failed >= 1)
                    => string = "failed"
              /\ (status.Succeeded = 0 /\ status.Failed = 0
                    /\ status.Active >= 1) => string = "running"
              /\ (status.Succeeded = 0 /\ status.Failed = 0
                    /\ status.Active = 0) => string = "unknown"
              /\ string \notin {"queued", "cancelled"}

\* a job with succeeded, failed and active pods at once has been reported
C33_Witness ==
    \E n \in JobNames :
       /\ present(n)
       /\ jobs[n].status.Succeeded >= 1
       /\ jobs[n].status.Failed >= 1
       /\ jobs[n].status.Active >= 1
       /\ statusOf(n) = "completed"

\* the orchestrator's replies to jobsClient.Create
CreateReplies == {"created", "rejected"}

\* what dispatchTaskJob leaves alone
besideDispatch ==
    <<reaper, cancelled, response, schedVars, samplerVars, packVars, conv,
      sequential, validator>>

\* dispatchTaskJob of the engine of run r: taskJob builds the job
\* specification, or fails; its error is bound to the name nil and never
\* looked at; jobsClient.Create is called with what taskJob returned, and
\* only when Create fails is an error returned
toolDispatchTaskJob(r) ==
    /\ present(engineJobOf(r))
    /\ jobStatusToString(jobs[engineJobOf(r)].status) = "running"
    /\ jobs[taskJobOf(r)].phase = "none"
    /\ tool[r].pc = "idle"
    /\ \E built \in BOOLEAN, reply \in CreateReplies :
          IF reply = "rejected"
          THEN /\ tool' = [tool EXCEPT ![r] =
                         [@ EXCEPT !.pc = "returned", !.built = built,
                                   !.reply = reply, !.err = "create"]]
               /\ UNCHANGED jobs
          ELSE /\ jobs' = [jobs EXCEPT ![taskJobOf(r)].phase = "present"]
               /\ tool' = [tool EXCEPT ![r] =
                         [pc |-> "returned", built |-> built, reply |-> reply,
                          JobID |-> taskJobOf(r), JobName |-> taskJobOf(r),
                          Log |-> [JobID |-> taskJobOf(r),
                                   JobName |-> taskJobOf(r)],
                          err |-> ""]]
    /\ UNCHANGED besideDispatch

DispatchNext ==
    \/ \E r \in Runs : handleRunsPOST(r)
    \/ \E r \in Runs : toolDispatchTaskJob(r)
    \/ \E n \in JobNames : statusUpdate(n)

DispatchSpec == ServerInit /\ [][DispatchNext]_vars

\* C34: when building the job specification fails or the orchestrator
\* rejects the create call, no job is recorded for the task (JobID, JobName
\* and the log's JobID and JobName stay as they were) and an error is
\* returned; a job is submitted only with a successfully built
\* specification
C34_DispatchFailureReported ==
    \A r \in Runs :
       tool[r].pc = "returned" =>
          /\ (~tool[r].built \/ tool[r].reply = "rejected") =>
                /\ tool[r].JobID = NoTool.JobID
                /\ tool[r].JobName = NoTool.JobName
                /\ tool[r].Log = NoTool.Log
                /\ tool[r].err # ""
          /\ tool[r].reply # "" => tool[r].built

\* a step of the pass of deleteJobs over reaper.list
deleteJobsStep == reaper.pc = "delete" /\ reaper' # reaper

\* C35: in one pass of deleteJobs a failed delete ends the pass at once
\* with that error and deletes nothing more; any other job of the list,
\* one whose status could not be read too, is passed over and the pass
\* goes on with the next job; only a job whose status is the condition is
\* deleted; the pass ends without an error when no delete failed
C35_DeleteJobsPass ==
    [][deleteJobsStep =>
          IF reaper.i <= Len(reaper.list)
          THEN LET n == reaper.list[reaper.i]
               IN  /\ IF reaper'.err # ""
                      THEN /\ reaper'.err = n
                           /\ reaper'.pc = "list"
                           /\ jobs' = jobs
                      ELSE /\ reaper'.pc = "delete"
                           /\ reaper'.list = reaper.list
                           /\ reaper'.i = reaper.i + 1
                   /\ \A m \in JobNames :
                         (present(m) /\ ~present(m)') =>
                            m = n /\ statusOf(m) = "completed"
          ELSE reaper'.pc = "list" /\ reaper'.err = "" /\ jobs' = jobs]_vars

\* the delete of the first job of the list failed, and the completed job
\* listed after it is still there
C35_Witness ==
    /\ reaper.err = "task-r1"
    /\ reaper.pc = "list"
    /\ present("task-r1") /\ statusOf("task-r1") = "completed"
    /\ present("engine-r1") /\ statusOf("engine-r1") = "completed"

(***************************************************************************)
(* The sequential scheduler (Task.Run), called by RunWorkflow as           *)
(* mainTask.Run() in place of mainTask.GoRun().  On a leaf task and on a   *)
(* task with scatter inputs Run makes the calls GoRun makes.               *)
(***************************************************************************)
\* what Task.Run leaves alone
besideRun == <<serverVars, samplerVars, packVars, conv, tool, validator>>

\* RunWorkflow: mainTask.Run()
mainTaskRun ==
    /\ Running
    /\ sequential.mode = "idle"
    /\ pc[mainPath] = "GoRun"
    /\ pc' = [pc EXCEPT ![mainPath] = "Run"]
    /\ sequential' = [sequential EXCEPT !.mode = "sequential",
                  !.unFinishedSteps = [t \in DOMAIN tasks |-> {}],
                  !.curStepID = [t \in DOMAIN tasks |-> ""],
                  !.ran = [t \in DOMAIN tasks |-> 0]]
    /\ UNCHANGED <<engine, docId, input, tasks, Parameters, Outputs, Scatter,
                   outputIDMap, idx, job>>
    /\ UNCHANGED besideRun

\* setupStepQueue: the ids of the steps of the workflow
setupStepQueue(root) == {root.Steps[i].ID : i \in DOMAIN root.Steps}

\* getStep: any key of unFinishedSteps, "" when there is none
getStep(unFinishedSteps) ==
    IF unFinishedSteps = {} THEN {""} ELSE unFinishedSteps

\* Run on a workflow task, up to the loop over unFinishedSteps
Run(t) ==
    /\ Running
    /\ pc[t] = "Run"
    /\ outputIDMap' = [outputIDMap EXCEPT ![t] = setupOutputMap(Root(t))]
    /\ \E curStepID \in getStep(setupStepQueue(Root(t))) :
          sequential' = [sequential EXCEPT !.unFinishedSteps[t] = setupStepQueue(Root(t)),
                             !.curStepID[t] = curStepID]
    /\ pc' = [pc EXCEPT ![t] = "loop"]
    /\ UNCHANGED <<engine, docId, input, tasks, Parameters, Outputs, Scatter,
                   idx, job>>
    /\ UNCHANGED besideRun

RECURSIVE stepInputs(_, _, _, _, _)
\* the loops of Run over curStep.In and over input.Source, from source j of
\* `in` entry i on, with params the Parameters of the subtask so far: a
\* source that is the output of an unfinished step stops the loops
\* (prevStepID), a source that is the output of a finished step is bound
\* once that step's task holds an output (waiting: it holds none), a
\* source with the prefix of the workflow's id is bound from the workflow's
\* Parameters
stepInputs(t, subtask, params, i, j) ==
    LET curStep == tasks[subtask].originalStep
    IN  IF i > Len(curStep.In)
        THEN [Parameters |-> params, prevStepID |-> "", waiting |-> FALSE]
        ELSE IF j > Len(curStep.In[i].Source)
        THEN stepInputs(t, subtask, params, i + 1, 1)
        ELSE LET source == curStep.In[i].Source[j]
                 subtaskInput == step2taskID(curStep, curStep.In[i].ID)
                 outputMap == setupOutputMap(Root(t))
             IN  IF source \in DOMAIN outputMap
                 THEN LET stepID == outputMap[source]
                          depTask == Child(t, stepID)
                          outputID == tasks[depTask].Root
                                         \o TrimPrefix(source, stepID)
                      IN  IF stepID \in sequential.unFinishedSteps[t]
                          THEN [Parameters |-> params, prevStepID |-> stepID,
                                waiting |-> FALSE]
                          ELSE IF Cardinality(DOMAIN Outputs[depTask]) > 0
                          THEN stepInputs(t, subtask,
                                  Put(params, subtaskInput,
                                      Get(Outputs[depTask], outputID)),
                                  i, j + 1)
                          ELSE [Parameters |-> params, prevStepID |-> "",
                                waiting |-> TRUE]
                 ELSE IF HasPrefix(source, Root(t).ID)
                 THEN stepInputs(t, subtask,
                         Put(params, subtaskInput, Get(Parameters[t], source)),
                         i, j + 1)
                 ELSE stepInputs(t, subtask, params, i, j + 1)

\* one iteration of the loop of Run over unFinishedSteps, up to the call of
\* subtask.Run(), to the `continue` on an unresolved dependency, or to the
\* sleep of the wait for a dependency task without outputs; past the last
\* step Run goes on to mergeChildOutputs
loop(t) ==
    /\ Running
    /\ pc[t] = "loop"
    /\ IF sequential.unFinishedSteps[t] = {}
       THEN /\ pc' = [pc EXCEPT ![t] = "mergeChildOutputs"]
            /\ UNCHANGED <<Parameters, Scatter, sequential>>
       ELSE LET subtask == Child(t, sequential.curStepID[t])
                curStep == tasks[subtask].originalStep
                in == stepInputs(t, subtask, Parameters[subtask], 1, 1)
                scatter == Scatter[subtask] \o
                    [k \in DOMAIN curStep.Scatter |->
                        idMaps(curStep, curStep.Scatter[k])]
            IN  /\ Parameters' = [Parameters EXCEPT ![subtask] = in.Parameters]
                /\ IF in.prevStepID # ""
                   THEN /\ sequential' = [sequential EXCEPT !.curStepID[t] = in.prevStepID]
                        /\ UNCHANGED <<pc, Scatter>>
                   ELSE IF in.waiting
                   THEN /\ pc' = [pc EXCEPT ![t] = "waitSleep"]
                        /\ UNCHANGED <<Scatter, sequential>>
                   ELSE /\ Scatter' = [Scatter EXCEPT ![subtask] = scatter]
                        /\ sequential' = [sequential EXCEPT !.ran[subtask] = @ + 1]
                        /\ pc' = [pc EXCEPT
                              ![t] = "subtask.Run",
                              ![subtask] = IF isWorkflow(subtask) /\ scatter = <<>>
                                           THEN "Run" ELSE "GoRun"]
    /\ UNCHANGED <<engine, docId, input, tasks, Outputs, outputIDMap, idx, job>>
    /\ UNCHANGED besideRun

\* the wait for a dependency task without outputs, after its sleep: the
\* input is still absent and the body of the wait loop is entered again
waitSleep(t) ==
    /\ Running
    /\ pc[t] = "waitSleep"
    /\ pc' = [pc EXCEPT ![t] = "loop"]
    /\ UNCHANGED <<engine, docId, input, tasks, Parameters, Outputs, Scatter,
                   outputIDMap, idx, job, sequential>>
    /\ UNCHANGED besideRun

\* subtask.Run() has returned: delete(task.unFinishedSteps, curStepID) and
\* curStepID = task.getStep()
subtaskReturn(t) ==
    /\ Running
    /\ pc[t] = "subtask.Run"
    /\ returned(Child(t, sequential.curStepID[t]))
    /\ LET unFinishedSteps == sequential.unFinishedSteps[t] \ {sequential.curStepID[t]}
       IN  \E curStepID \in getStep(unFinishedSteps) :
              sequential' = [sequential EXCEPT !.unFinishedSteps[t] = unFinishedSteps,
                                 !.curStepID[t] = curStepID]
    /\ pc' = [pc EXCEPT ![t] = "loop"]
    /\ UNCHANGED <<engine, docId, input, tasks, Parameters, Outputs, Scatter,
                   outputIDMap, idx, job>>
    /\ UNCHANGED besideRun

\* the calls a task makes, wherever it was run from
taskCalls(t) ==
    \/ GoRunTool(t)
    \/ mergeChildOutputs(t) \/ mergeLoop(t) \/ mergeSleep(t)
    \/ dispatchTaskJob(t) \/ observeJob(t) \/ collectOutput(t)
    \/ runScatter(t) \/ gatherScatterOutputs(t)

RunNext ==
    \/ RunWorkflow
    \/ mainTaskRun
    \/ RunWorkflowReturn
    \/ \E t \in DOMAIN tasks : Run(t)
    \/ \E t \in DOMAIN tasks : loop(t)
    \/ \E t \in DOMAIN tasks : waitSleep(t)
    \/ \E t \in DOMAIN tasks : subtaskReturn(t)
    \/ \E t \in DOMAIN tasks : taskCalls(t)

RunSpec == Init /\ [][RunNext]_vars

\* Run is one thread of control (with the scatter subtasks it starts):
\* whenever it can take a step it takes one
FairRunSpec == RunSpec /\ WF_vars(RunNext)

\* the steps of the workflow of t whose outputs the step of subtask uses
\* as sources
producers(t, subtask) ==
    LET curStep == tasks[subtask].originalStep
        outputMap == setupOutputMap(Root(t))
        sources == UNION {Range(curStep.In[i].Source) : i \in DOMAIN curStep.In}
    IN  {outputMap[source] : source \in sources \cap DOMAIN outputMap}

\* a step's task is run at most once, and only after every producer of its
\* sources has been run, has returned and is out of unFinishedSteps
RunsInDependencyOrder ==
    [][sequential.mode = "sequential" =>
          \A subtask \in DOMAIN sequential.ran :
             sequential'.ran[subtask] # sequential.ran[subtask] =>
                /\ sequential.ran[subtask] = 0
                /\ \A stepID \in producers(parentOf(subtask), subtask) :
                      /\ stepID \notin sequential.unFinishedSteps[parentOf(subtask)]
                      /\ sequential.ran[Child(parentOf(subtask), stepID)] = 1
                      /\ returned(Child(parentOf(subtask), stepID))]_vars

\* every loop of Run has ended: every step was run once and no step is
\* left unfinished
RunComplete ==
    /\ sequential.mode = "sequential"
    /\ \A t \in DOMAIN sequential.ran :
          /\ sequential.unFinishedSteps[t] = {}
          /\ t # mainPath => sequential.ran[t] = 1

\* C36: in the sequential scheduler each step's task is run exactly once,
\* only after every step whose output it uses as a source has been run and
\* removed from unFinishedSteps, and the loop ends with unFinishedSteps
\* empty, whatever step getStep picks (the documents RunWorkflow panics
\* on, and the one with a scattered step, whose gather is no part of the
\* loop, aside)
C36_SequentialRunsEachStepOnce ==
    /\ RunsInDependencyOrder
    /\ docId # "scatter" => <>(engine = "panicked" \/ RunComplete)

(***************************************************************************)
(* The two schedulers on the same workflow and inputs: once GoRun has      *)
(* returned, the workflow is run again from the same task tree by Run.     *)
(***************************************************************************)
\* the tasks resolveGraph made: those that runScatter added are left out
resolvedTasks == {t \in DOMAIN tasks : tasks[t].ScatterIndex = 0}

\* RunWorkflow with mainTask.Run(), on the workflow and inputs the
\* concurrent scheduler has just finished: what GoRun left is kept in
\* sequential.concurrent
RunWorkflowSequential ==
    /\ engine = "finished"
    /\ sequential.mode = "idle"
    /\ sequential' = [mode |-> "sequential",
                      unFinishedSteps |-> [t \in resolvedTasks |-> {}],
                      curStepID |-> [t \in resolvedTasks |-> ""],
                      ran |-> [t \in resolvedTasks |-> 0],
                      concurrent |-> [Parameters |-> Parameters,
                                      Outputs |-> Outputs]]
    /\ engine' = "running"
    /\ tasks' = [t \in resolvedTasks |-> tasks[t]]
    /\ Parameters' = [t \in resolvedTasks |->
                         IF t = mainPath THEN Parameters[t] ELSE EmptyMap]
    /\ Outputs' = [t \in resolvedTasks |-> EmptyMap]
    /\ Scatter' = [t \in resolvedTasks |-> <<>>]
    /\ outputIDMap' = [t \in resolvedTasks |-> EmptyMap]
    /\ pc' = [t \in resolvedTasks |->
                 IF t = mainPath THEN "Run" ELSE "notStarted"]
    /\ idx' = [t \in resolvedTasks |-> 1]
    /\ job' = [t \in resolvedTasks |-> "none"]
    /\ UNCHANGED <<docId, input>>
    /\ UNCHANGED besideRun

BothNext ==
    \/ Next
    \/ RunWorkflowSequential
    \/ \E t \in DOMAIN tasks : Run(t)
    \/ \E t \in DOMAIN tasks : loop(t)
    \/ \E t \in DOMAIN tasks : waitSleep(t)
    \/ \E t \in DOMAIN tasks : subtaskReturn(t)

BothSpec == Init /\ [][BothNext]_vars

\* the documents whose `in` entries and outputs have one source each, a
\* sibling output or a workflow input, and whose steps run a process of
\* the document
SingleSource == {"sub", "linear", "scatter"}

\* C37: on a workflow with acyclic single-source step dependencies the
\* concurrent scheduler ends with the Parameters on every task, and the
\* Outputs on every workflow task, that the sequential scheduler ends with
\* on the same inputs
C37_ConcurrentRefinesSequential ==
    (/\ docId \in SingleSource
     /\ sequential.mode = "sequential"
     /\ engine = "finished") =>
       \A t \in resolvedTasks :
          /\ sequential.concurrent.Parameters[t] = Parameters[t]
          /\ isWorkflow(t) => sequential.concurrent.Outputs[t] = Outputs[t]

(***************************************************************************)
(* Termination of the concurrent scheduler.                                *)
(***************************************************************************)
\* every dispatched leaf task publishes its outputs: no job is rejected
\* and none ends failed
NoJobFails == \A t \in DOMAIN job : job[t] # "failed"

\* the fair runs of the concurrent scheduler on the documents whose
\* sources all resolve
ResolvedInit == Init /\ docId \in SingleSource

FairResolvedSpec ==
    /\ ResolvedInit
    /\ [][Next]_vars
    /\ WF_vars(RunWorkflow)
    /\ WF_vars(RunWorkflowReturn)
    /\ \A t \in AllPaths : WF_vars(Activity(t))

\* C38: under weak fairness of every activity, on a workflow with acyclic
\* step dependencies whose sources all resolve and whose leaf tasks all
\* publish their outputs, RunWorkflow eventually returns: no wait of a
\* step activity or of a gather goes on for ever
C38_RunWorkflowReturns ==
    (docId \in SingleSource /\ []NoJobFails) => <>(engine = "finished")

\* RunWorkflow has returned on the document with a sub-workflow, every
\* step activity and gather past its waits
C38_Witness ==
    /\ docId = "sub"
    /\ engine = "finished"
    /\ NoJobFails
    /\ \A t \in DOMAIN pc : returned(t)

(***************************************************************************)
(* The validator of packed documents (Validator.Validate, validate,        *)
(* validateStep).                                                          *)
(***************************************************************************)
\* the calls of validate the stack of the Go runtime has room for
MaxCalls == 4

\* an optional field of a JSON object: absent, or present with a value
optional(field, values) == {EmptyMap} \cup {field :> value : value \in values}

\* the steps of the documents: in, out and run may be missing, run names
\* the tool, the workflow #main itself, or no process of the document
ValidatorSteps ==
    {("id" :> Str("#main/s")) @@ in @@ out @@ run :
        in \in optional("in", {Arr(<<>>)}),
        out \in optional("out", {Arr(<<>>)}),
        run \in optional("run", {Str("#tool"), Str("#main"), Str("#missing")})}

\* the #main workflows of the documents, with one step
MainProcesses ==
    {("id" :> Str("#main")) @@ ("class" :> Str("Workflow"))
        @@ ("inputs" :> Arr(<<>>)) @@ ("outputs" :> Arr(<<>>))
        @@ ("steps" :> Arr(<<GoMap(step)>>)) : step \in ValidatorSteps}

\* the step of a sub-workflow that runs #main
BackStep ==
    GoMap(("id" :> Str("#tool/s")) @@ ("in" :> Arr(<<>>))
             @@ ("out" :> Arr(<<>>)) @@ ("run" :> Str("#main")))

\* the second process of the documents: inputs, outputs, class, expression
\* and steps may be missing, inputs may be a map, class may be any string
ToolProcesses ==
    {("id" :> Str("#tool")) @@ inputs @@ outputs @@ class @@ expression
        @@ steps :
        inputs \in optional("inputs", {Arr(<<>>), GoMap(EmptyMap)}),
        outputs \in optional("outputs", {Arr(<<>>)}),
        class \in optional("class", {Str("CommandLineTool"),
                     Str("ExpressionTool"), Str("Workflow"), Str("Other")}),
        expression \in optional("expression", {Str("$(1)")}),
        steps \in optional("steps", {Arr(<<BackStep>>)})}

\* the documents given to the validator: *WorkflowJSON, with Graph a
\* pointer (no element: nil)
WorkflowJSONs ==
    {[Graph |-> <<>>, CWLVersion |-> "v1.0"]} \cup
    {[Graph |-> <<graph>>, CWLVersion |-> version] :
        graph \in {<<main, process>> : main \in MainProcesses,
                                       process \in ToolProcesses}
                     \cup {<<process>> : process \in ToolProcesses},
        version \in {"", "v1.0"}}

\* Grievances.log: g = append(g, ...) on the receiver, which is a copy of
\* the caller's slice; the caller's slice is as it was
log(g, grievance) ==
    LET appended == Append(g, grievance)
    IN  g

\* WorkflowGrievances.empty
empty(wfg) ==
    /\ Len(wfg.Main) = 0
    /\ \A id \in DOMAIN wfg.ByProcess : Len(wfg.ByProcess[id]) = 0

\* fieldCheck: the field is there and, for a mapToArray field, is an
\* array; its grievances go to its own copy of g
fieldCheck(obj, field) ==
    /\ field \in DOMAIN obj
    /\ field \in mapToArray => obj[field].k = "array"

\* what Validate, validate and validateStep leave alone
besideValidate ==
    <<schedVars, serverVars, samplerVars, packVars, tool, sequential, conv>>

\* validate and validateStep return to Validate, which returns
\* whether there is no grievance
ValidateReturn(v) ==
    [v EXCEPT !.pc = "returned", !.stack = <<>>,
              !.valid = empty([Main |-> v.Main, ByProcess |-> v.ByProcess])]

\* a return of validate: to validateStep and so to the loop over the steps
\* of the caller, or to Validate
return(v) ==
    IF Len(v.stack) = 1 THEN ValidateReturn(v)
    ELSE [v EXCEPT !.stack = SubSeq(v.stack, 1, Len(v.stack) - 1)]

\* Validate, up to the call of validate on #main: a nil $graph is
\* dereferenced (panic), the grievances of Main are logged
Validate ==
    /\ validator.pc = "idle"
    /\ \E wf \in WorkflowJSONs :
          LET missingGraph ==
                  IF wf.Graph = <<>> THEN log(<<>>, "missing graph") ELSE <<>>
              missingVersion ==
                  IF wf.CWLVersion = ""
                  THEN log(missingGraph, "missing cwlVersion")
                  ELSE missingGraph
              v == [NoValidator EXCEPT !.Workflow = wf, !.Main = missingVersion]
          IN  IF wf.Graph = <<>>
              THEN validator' = [v EXCEPT !.pc = "panicked"]
              ELSE LET graph == wf.Graph[1]
                       mains == {n \in DOMAIN graph : graph[n].id = Str("#main")}
                   IN  IF mains = {}
                       THEN validator' = ValidateReturn(
                               [v EXCEPT !.Main =
                                   log(@, "missing '#main' workflow")])
                       ELSE validator' =
                               [v EXCEPT !.pc = "validate",
                                  !.stack = <<[obj |-> CHOOSE n \in mains :
                                                 \A l \in mains : n <= l,
                                               next |-> 0]>>]
    /\ UNCHANGED besideValidate

\* the frame of the innermost call of validate, and its object
top == validator.stack[Len(validator.stack)]
topObj == validator.Workflow.Graph[1][top.obj]

\* validate, up to the loop over the steps of a Workflow: ByProcess[id]
\* gets an empty slice, the common fields are checked into the local g,
\* an object without a class string, a tool, and a Workflow without a
\* steps array return
validate ==
    /\ validator.pc = "validate"
    /\ top.next = 0
    /\ LET v == [validator EXCEPT
                    !.ByProcess = Put(@, topObj.id.v, <<>>)]
           class == IF "class" \in DOMAIN topObj /\ topObj.class.k = "string"
                    THEN topObj.class.v ELSE ""
       IN  IF class = "Workflow" /\ fieldCheck(topObj, "steps")
           THEN validator' = [v EXCEPT !.stack[Len(v.stack)].next = 1]
           ELSE validator' = return(v)
    /\ UNCHANGED besideValidate

\* validateStep on the next step of the Workflow: its grievances go to a
\* copy of ByProcess[parentID]; a step whose run is the id of an object of
\* $graph (the last one with that id) calls validate on that object
validateStep ==
    /\ validator.pc = "validate"
    /\ top.next >= 1
    /\ top.next <= Len(topObj.steps.v)
    /\ LET step == topObj.steps.v[top.next]
           graph == validator.Workflow.Graph[1]
           after == [validator EXCEPT !.stack[Len(validator.stack)].next = @ + 1]
           run == IF /\ step.k = "map[string]interface{}"
                     /\ "run" \in DOMAIN step.v
                     /\ step.v.run.k = "string"
                  THEN step.v.run.v ELSE ""
           refs == {n \in DOMAIN graph : graph[n].id.v = run}
       IN  IF refs = {}
           THEN validator' = after
           ELSE IF Len(validator.stack) = MaxCalls
           THEN \* fatal error: stack overflow
                validator' = [validator EXCEPT !.pc = "overflow"]
           ELSE validator' =
                   [after EXCEPT !.stack =
                       Append(@, [obj |-> CHOOSE n \in refs :
                                             \A l \in refs : l <= n,
                                  next |-> 0])]
    /\ UNCHANGED besideValidate

\* validate past the last step of a Workflow: it returns
validateReturn ==
    /\ validator.pc = "validate"
    /\ top.next >= 1
    /\ top.next > Len(topObj.steps.v)
    /\ validator' = return(validator)
    /\ UNCHANGED besideValidate

ValidateNext ==
    \/ Validate
    \/ validate
    \/ validateStep
    \/ validateReturn

ValidateSpec == ServerInit /\ [][ValidateNext]_vars

\* the validator is one thread of control
FairValidateSpec == ValidateSpec /\ WF_vars(ValidateNext)

\* the ids the steps of a process run
runs(obj) ==
    IF "steps" \in DOMAIN obj /\ obj.steps.k = "array"
    THEN {obj.steps.v[n].v.run.v :
             n \in {n \in DOMAIN obj.steps.v : "run" \in DOMAIN obj.steps.v[n].v}}
    ELSE {}

RECURSIVE reachable(_, _, _)
\* the ids of the processes reachable from ids in at most n steps
reachable(graph, ids, n) ==
    IF n = 0 THEN ids
    ELSE reachable(graph,
            ids \cup UNION {runs(graph[l]) :
                               l \in {l \in DOMAIN graph : graph[l].id.v \in ids}},
            n - 1)

\* the structural checks on one process
wellFormed(graph, obj) ==
    /\ \A field \in {"inputs", "outputs"} :
          field \in DOMAIN obj /\ obj[field].k = "array"
    /\ "class" \in DOMAIN obj
    /\ obj.class.v \in {"Workflow", "CommandLineTool", "ExpressionTool"}
    /\ obj.class.v = "ExpressionTool" => "expression" \in DOMAIN obj
    /\ obj.class.v = "Workflow" =>
          /\ "steps" \in DOMAIN obj /\ obj.steps.k = "array"
          /\ \A n \in DOMAIN obj.steps.v :
                /\ {"in", "out", "run"} \subseteq DOMAIN obj.steps.v[n].v
                /\ \E l \in DOMAIN graph :
                      graph[l].id.v = obj.steps.v[n].v.run.v

\* the document passes every structural check
flawless(wf) ==
    /\ wf.Graph # <<>>
    /\ wf.CWLVersion # ""
    /\ \E n \in DOMAIN wf.Graph[1] : wf.Graph[1][n].id.v = "#main"
    /\ \A n \in DOMAIN wf.Graph[1] :
          wf.Graph[1][n].id.v
                \in reachable(wf.Graph[1], {"#main"}, Len(wf.Graph[1]))
             => wellFormed(wf.Graph[1], wf.Graph[1][n])

\* C39: Validate returns true only for a document that passes every
\* structural check; for a document with an empty cwlVersion, without
\* #main, with a reachable process that lacks inputs, outputs or class (or
\* has them in non-array form), with a class other than Workflow,
\* CommandLineTool and ExpressionTool, with an ExpressionTool without
\* expression, or with a step that lacks in, out or run or runs an id not
\* in $graph, it returns false with a grievance recorded in Grievances
C39_ValidOnlyIfFlawless ==
    (validator.pc = "returned" /\ ~flawless(validator.Workflow)) =>
       /\ ~validator.valid
       /\ ~empty([Main |-> validator.Main, ByProcess |-> validator.ByProcess])

\* C40: Validate terminates on every packed document whose $graph is
\* present: the recursion validate -> validateStep -> validate ends, also
\* when a step of a workflow runs, directly or through another workflow,
\* the workflow itself
C40_ValidateTerminates ==
    (validator.pc = "validate") ~> (validator.pc = "returned")

====
